---------------------------- MODULE Spec2Model ----------------------------
(***************************************************************************)
(* Bitbucket -> Slack pull-request card relay.                             *)
(*                                                                         *)
(* The model follows internal/bitbucket (WebhookHandler) and               *)
(* internal/store (RepoStore).  Every PostgreSQL statement and every Slack *)
(* API call is one atomic step; the goroutine started by Handle for an     *)
(* accepted delivery is a process that runs those steps one at a time and  *)
(* interleaves freely with the other goroutines.                           *)
(*                                                                         *)
(* Text is kept as a sequence of string tokens (fmt.Sprintf and "+" are    *)
(* concatenation, \o); the empty string is <<>>.  Atomic payload fields    *)
(* are strings, except the state of a build, which strings.ToUpper reads   *)
(* rune by rune and which is kept as the sequence of its runes (Unicode    *)
(* code points).  The module is ASCII: the source's em dash (U+2014),      *)
(* arrow (U+2192) and ellipsis (U+2026) are written "--", "->" and "...",  *)
(* and the backquote around a branch name is written as an apostrophe.     *)
(*                                                                         *)
(* A store statement or a Slack call can return an error.  faults is the   *)
(* number of errors the environment may still inject; a step that makes a  *)
(* call takes either outcome while faults is positive.                     *)
(***************************************************************************)
EXTENDS Integers, Sequences, FiniteSets, TLC

(***************************************************************************)
(* Bounds of the model.                                                    *)
(***************************************************************************)
\* webhook deliveries per behaviour
MaxEvents == 2
\* reconciliation goroutines in flight at the same time
MaxHandlers == 2
\* store statements and Slack calls that return an error, per behaviour
MaxFaults == 1

(***************************************************************************)
(* Input domains.                                                          *)
(***************************************************************************)
Channels == {"C1", "C2"}
SecretValues == {"s1"}

PREvents == {"pullrequest:created", "pullrequest:fulfilled", "pullrequest:rejected",
             "pullrequest:approved", "pullrequest:unapproved",
             "pullrequest:comment_created"}
StatusEvents == {"repo:commit_status_created", "repo:commit_status_updated"}

EmDash == "--"

VARIABLES
    subs,           \* table repo_subscriptions: rows [channel_id, repo_slug]
    secrets,        \* table webhook_secrets: rows [repo_slug, secret]
    prMessages,     \* table pr_messages: rows [repo_slug, pr_id, channel_id, message_ts]
    prApprovals,    \* table pr_approvals: its heap slots in ctid order
    prCommits,      \* table pr_commits: rows [repo_slug, pr_id, commit_hash, ...]
    buildStatuses,  \* table build_statuses: rows [repo_slug, commit_hash, state, name, url]
    userMappings,   \* table user_mappings: rows [slack_user_id, bitbucket_username]
    tokens,         \* table bitbucket_tokens: rows [team_id, workspace]
    slackMsgs,      \* Slack: top-level messages by ts: [channel, repo, pr, blocks, text]
    hs,             \* the goroutines started by Handle, by slot
    events,         \* deliveries received so far
    resp,           \* HTTP status of the last delivery (0: none yet)
    faults,         \* errors the store and Slack may still return
    menu            \* the deliveries Bitbucket may send in this behaviour

stores == <<subs, secrets, prMessages, prApprovals, prCommits, buildStatuses,
           userMappings, tokens>>
vars == <<subs, secrets, prMessages, prApprovals, prCommits, buildStatuses,
          userMappings, tokens, slackMsgs, hs, events, resp, faults, menu>>

\* The outcomes of a store statement or Slack call: TRUE is an error return.
Errs == IF faults > 0 THEN BOOLEAN ELSE {FALSE}

\* the errors injected in a step are taken from the budget
Spend(n) == n <= faults /\ faults' = faults - n

Cost(err) == IF err THEN 1 ELSE 0

(***************************************************************************)
(* RepoStore: each operator is one SQL statement on the table's value.     *)
(***************************************************************************)
\* The same SELECT without its WHERE clause: every subscribed channel.
ChannelsForRepoAll(tbl, repoSlug) ==
  {r.channel_id : r \in tbl}

ChannelsForRepo(tbl, repoSlug) ==
    {r.channel_id : r \in {x \in tbl : x.repo_slug = repoSlug}}

\* INSERT ... ON CONFLICT DO NOTHING
\* A SELECT of several rows hands them to the caller one at a time
\* (rows.Next, rows.Scan).  When it returns an error, what it returns with it
\* is nil (the query or a Scan failed) or the rows scanned before rows.Err()
\* reported the error: none, some or all of the rows.  This SELECT has no
\* ORDER BY, so the rows scanned first are any of them.
ChannelsForRepoErr(tbl, repoSlug) == SUBSET ChannelsForRepo(tbl, repoSlug)

Subscribe(tbl, channelID, repoSlug) ==
    tbl \cup {[channel_id |-> channelID, repo_slug |-> repoSlug]}

Unsubscribe(tbl, channelID, repoSlug) ==
    {r \in tbl : ~(r.channel_id = channelID /\ r.repo_slug = repoSlug)}

\* the INSERT of GetOrCreateWebhookSecret with ON CONFLICT DO UPDATE
InsertWebhookSecretUpsert(tbl, repoSlug, secret) ==
    {r \in tbl : r.repo_slug # repoSlug} \cup {[repo_slug |-> repoSlug, secret |-> secret]}

\* the INSERT of GetOrCreateWebhookSecret: ON CONFLICT DO NOTHING on the
\* primary key repo_slug
InsertWebhookSecret(tbl, repoSlug, secret) ==
    IF \E r \in tbl : r.repo_slug = repoSlug THEN tbl
    ELSE tbl \cup {[repo_slug |-> repoSlug, secret |-> secret]}

\* a repository without a row read as having the secret "s1"
GetWebhookSecretDefault(tbl, repoSlug) ==
    IF \E r \in tbl : r.repo_slug = repoSlug
    THEN (CHOOSE r \in tbl : r.repo_slug = repoSlug).secret
    ELSE "s1"

GetWebhookSecret(tbl, repoSlug) ==
    IF \E r \in tbl : r.repo_slug = repoSlug
    THEN (CHOOSE r \in tbl : r.repo_slug = repoSlug).secret
    ELSE ""

SavePRMessageNoConflict(tbl, repoSlug, prID, channelID, messageTS) ==
    tbl \cup {[repo_slug |-> repoSlug, pr_id |-> prID,
               channel_id |-> channelID, message_ts |-> messageTS]}

SavePRMessage(tbl, repoSlug, prID, channelID, messageTS) ==
    {r \in tbl : ~(r.repo_slug = repoSlug /\ r.pr_id = prID /\ r.channel_id = channelID)}
    \cup {[repo_slug |-> repoSlug, pr_id |-> prID,
           channel_id |-> channelID, message_ts |-> messageTS]}

\* the SELECT without pr_id in its WHERE clause
GetPRMessagesAnyPR(tbl, repoSlug, prID) ==
    {[ChannelID |-> r.channel_id, MessageTS |-> r.message_ts] :
        r \in {x \in tbl : x.repo_slug = repoSlug}}

GetPRMessages(tbl, repoSlug, prID) ==
    {[ChannelID |-> r.channel_id, MessageTS |-> r.message_ts] :
        r \in {x \in tbl : x.repo_slug = repoSlug /\ x.pr_id = prID}}

(***************************************************************************)
(* pr_approvals is kept as its heap: the sequence of tuple slots in ctid    *)
(* order, which is the order GetApprovals reads.  A slot holds a live row,  *)
(* a deleted row the database has not reclaimed yet ("dead"), or nothing    *)
(* ("free", after the database's vacuum reclaimed it).  xmin numbers the    *)
(* inserting transactions: of two stored rows, the one inserted later has   *)
(* the larger xmin.  An INSERT takes the first free slot when there is one  *)
(* and extends the heap otherwise.                                          *)
(***************************************************************************)
FreeTuple == [repo_slug |-> "", pr_id |-> 0, user_name |-> "", xmin |-> 0, state |-> "free"]

IsApproval(t, repoSlug, prID, userName) ==
    /\ t.state = "live"
    /\ t.repo_slug = repoSlug /\ t.pr_id = prID /\ t.user_name = userName

NextXid(tbl) ==
    1 + (IF tbl = <<>> THEN 0
         ELSE CHOOSE n \in {tbl[i].xmin : i \in 1..Len(tbl)} :
                \A i \in 1..Len(tbl) : tbl[i].xmin <= n)

\* INSERT without its ON CONFLICT clause
AddApprovalNoConflict(tbl, repoSlug, prID, userName) ==
    Append(tbl, [repo_slug |-> repoSlug, pr_id |-> prID, user_name |-> userName,
                 xmin |-> NextXid(tbl), state |-> "live"])

AddApproval(tbl, repoSlug, prID, userName) ==
    IF \E i \in 1..Len(tbl) : IsApproval(tbl[i], repoSlug, prID, userName)
    THEN tbl
    ELSE LET row  == [repo_slug |-> repoSlug, pr_id |-> prID, user_name |-> userName,
                      xmin |-> NextXid(tbl), state |-> "live"]
             free == {i \in 1..Len(tbl) : tbl[i].state = "free"}
         IN  IF free = {} THEN Append(tbl, row)
             ELSE [tbl EXCEPT ![CHOOSE i \in free : \A j \in free : i <= j] = row]

\* the DELETE without user_name in its WHERE clause
RemoveApprovalAnyUser(tbl, repoSlug, prID, userName) ==
    [i \in 1..Len(tbl) |->
        IF tbl[i].state = "live" /\ tbl[i].repo_slug = repoSlug /\ tbl[i].pr_id = prID
        THEN [tbl[i] EXCEPT !.state = "dead"] ELSE tbl[i]]

RemoveApproval(tbl, repoSlug, prID, userName) ==
    [i \in 1..Len(tbl) |->
        IF IsApproval(tbl[i], repoSlug, prID, userName)
        THEN [tbl[i] EXCEPT !.state = "dead"] ELSE tbl[i]]

\* the database's vacuum: the slots of deleted rows become free
VacuumHeap(tbl) ==
    [i \in 1..Len(tbl) |-> IF tbl[i].state = "dead" THEN FreeTuple ELSE tbl[i]]

RECURSIVE ApprovalNames(_, _, _)
ApprovalNames(tbl, repoSlug, prID) ==
    IF tbl = <<>> THEN <<>>
    ELSE (IF Head(tbl).state = "live" /\ Head(tbl).repo_slug = repoSlug
             /\ Head(tbl).pr_id = prID
          THEN <<Head(tbl).user_name>> ELSE <<>>)
         \o ApprovalNames(Tail(tbl), repoSlug, prID)

GetApprovals(tbl, repoSlug, prID) == ApprovalNames(tbl, repoSlug, prID)

\* what GetApprovals returns together with an error: nil, or the names
\* scanned before rows.Err() reported it, a prefix of the names in ctid order
GetApprovalsErr(tbl, repoSlug, prID) ==
    LET names == GetApprovals(tbl, repoSlug, prID)
    IN  {SubSeq(names, 1, k) : k \in 0..Len(names)}

\* INSERT ... ON CONFLICT (slack_user_id) DO UPDATE.  bitbucket_username is
\* UNIQUE as well: when another Slack user holds the name the statement fails
\* with a unique violation and the table is left as it was.
SaveUserMapping(tbl, slackUserID, bitbucketUsername) ==
    IF \E m \in tbl : /\ m.bitbucket_username = bitbucketUsername
                       /\ m.slack_user_id # slackUserID
    THEN [rows |-> tbl, err |-> TRUE]
    ELSE [rows |-> {m \in tbl : m.slack_user_id # slackUserID}
                   \cup {[slack_user_id |-> slackUserID,
                          bitbucket_username |-> bitbucketUsername]},
          err |-> FALSE]

\* the id found although the query returned an error
GetSlackUserByBitbucketDespiteErr(tbl, bitbucketUsername, err) ==
    IF \E m \in tbl : m.bitbucket_username = bitbucketUsername
    THEN (CHOOSE m \in tbl : m.bitbucket_username = bitbucketUsername).slack_user_id
    ELSE ""

\* err: the query fails and "" is returned with the error
GetSlackUserByBitbucket(tbl, bitbucketUsername, err) ==
    IF err THEN ""
    ELSE IF \E m \in tbl : m.bitbucket_username = bitbucketUsername
    THEN (CHOOSE m \in tbl : m.bitbucket_username = bitbucketUsername).slack_user_id
    ELSE ""

\* INSERT ... ON CONFLICT (team_id) DO UPDATE
SaveToken(tbl, teamID, workspace) ==
    {t \in tbl : t.team_id # teamID} \cup {[team_id |-> teamID, workspace |-> workspace]}

\* nil when no row matches: the empty set; otherwise the singleton of the row
GetToken(tbl, teamID) == {t \in tbl : t.team_id = teamID}

DeleteToken(tbl, teamID) == {t \in tbl : t.team_id # teamID}

SavePRCommit(tbl, rec) ==
    {r \in tbl : ~(r.RepoSlug = rec.RepoSlug /\ r.PRID = rec.PRID)} \cup {rec}

\* nil when no row matches: the empty set; otherwise the singleton of the row
GetPRCommit(tbl, repoSlug, prID) ==
    {r \in tbl : r.RepoSlug = repoSlug /\ r.PRID = prID}

\* the SELECT without commit_hash in its WHERE clause
GetPRsByCommitAnyHash(tbl, repoSlug, commitHash) ==
    {r.PRID : r \in {x \in tbl : x.RepoSlug = repoSlug}}

GetPRsByCommit(tbl, repoSlug, commitHash) ==
    {r.PRID : r \in {x \in tbl : x.RepoSlug = repoSlug /\ x.CommitHash = commitHash}}

\* the INSERT with ON CONFLICT DO NOTHING instead of DO UPDATE
SaveBuildStatusKeepFirst(tbl, repoSlug, commitHash, state, name, buildURL) ==
    IF \E r \in tbl : r.repo_slug = repoSlug /\ r.commit_hash = commitHash
    THEN tbl
    ELSE tbl \cup {[repo_slug |-> repoSlug, commit_hash |-> commitHash,
                    State |-> state, Name |-> name, URL |-> buildURL]}

SaveBuildStatus(tbl, repoSlug, commitHash, state, name, buildURL) ==
    {r \in tbl : ~(r.repo_slug = repoSlug /\ r.commit_hash = commitHash)}
    \cup {[repo_slug |-> repoSlug, commit_hash |-> commitHash,
           State |-> state, Name |-> name, URL |-> buildURL]}

\* nil when no row matches: the empty set; otherwise the singleton of the row
GetBuildStatus(tbl, repoSlug, commitHash) ==
    {r \in tbl : r.repo_slug = repoSlug /\ r.commit_hash = commitHash}

(***************************************************************************)
(* Rendering (pure).                                                       *)
(***************************************************************************)
RECURSIVE Join(_, _)
Join(labels, sep) ==
    IF labels = <<>> THEN <<>>
    ELSE IF Len(labels) = 1 THEN labels[1]
    ELSE labels[1] \o <<sep>> \o Join(Tail(labels), sep)

\* lookupErr: GetSlackUserByBitbucket returns an error (logged, id is "")
resolveUser(tbl, displayName, lookupErr) ==
    LET id == GetSlackUserByBitbucket(tbl, displayName, lookupErr)
    IN  IF id # "" THEN <<"<@", id, ">">> ELSE <<"*", displayName, "*">>

\* The loops that resolve a list of names: one lookup per name, each with its
\* own outcome (lookupErrs[i]: the lookup of names[i] returns an error), all
\* on the same value of the table.
resolveAll(tbl, names, lookupErrs) ==
    [i \in 1..Len(names) |-> resolveUser(tbl, names[i], lookupErrs[i])]

\* no lookup of the loop returns an error
NoErrs(names) == [i \in 1..Len(names) |-> FALSE]

\* resolveReviewers once its lookups have given 'labels'
resolveReviewers(reviewers, labels) ==
    IF Len(reviewers) = 0 THEN <<EmDash>>
    ELSE Join(labels, ", ")

\* A build state is kept as the sequence of its runes (Unicode code points),
\* "" as <<>>.  Printable[r - 31] is the character of the ASCII rune r, for r
\* from 32 (space) to 126 (tilde); the backquote, rune 96, which a string of
\* this module cannot hold, is written by its number.
Printable ==
    <<" ", "!", "\"", "#", "$", "%", "&", "'", "(", ")", "*", "+", ",",
      "-", ".", "/", "0", "1", "2", "3", "4", "5", "6", "7", "8", "9", ":",
      ";", "<", "=", ">", "?", "@", "A", "B", "C", "D", "E", "F", "G", "H",
      "I", "J", "K", "L", "M", "N", "O", "P", "Q", "R", "S", "T", "U", "V",
      "W", "X", "Y", "Z", "[", "\\", "]", "^", "_", "U+96", "a", "b", "c",
      "d", "e", "f", "g", "h", "i", "j", "k", "l", "m", "n", "o", "p", "q",
      "r", "s", "t", "u", "v", "w", "x", "y", "z", "{", "|", "}", "~">>

\* the rune of a printable ASCII character
RuneOf(c) == 31 + CHOOSE k \in 1..Len(Printable) : Printable[k] = c

\* the runes of a string given character by character
Runes(chars) == [i \in 1..Len(chars) |-> RuneOf(chars[i])]

\* one rune as text: its character when it is printable ASCII, otherwise its
\* number
RuneText(r) ==
    IF 32 <= r /\ r <= 126 THEN Printable[r - 31] ELSE "U+" \o ToString(r)

\* a sequence of runes as text
String(runes) == [i \in 1..Len(runes) |-> RuneText(runes[i])]

\* The simple upper-case mappings of the runes above ASCII (Go's
\* unicode.CaseRanges read for UpperCase, from the Unicode character database):
\* <<lo, hi, stride, delta>> says that every stride-th rune from lo to hi has
\* the upper case rune + delta.  A rune in none of the ranges is its own upper
\* case.
CaseRanges ==
    <<<<181, 181, 1, 743>>, <<224, 246, 1, -32>>, <<248, 254, 1, -32>>,
      <<255, 255, 1, 121>>, <<257, 303, 2, -1>>, <<305, 305, 1, -232>>,
      <<307, 311, 2, -1>>, <<314, 328, 2, -1>>, <<331, 375, 2, -1>>,
      <<378, 382, 2, -1>>, <<383, 383, 1, -300>>, <<384, 384, 1, 195>>,
      <<387, 389, 2, -1>>, <<392, 392, 1, -1>>, <<396, 396, 1, -1>>,
      <<402, 402, 1, -1>>, <<405, 405, 1, 97>>, <<409, 409, 1, -1>>,
      <<410, 410, 1, 163>>, <<414, 414, 1, 130>>, <<417, 421, 2, -1>>,
      <<424, 424, 1, -1>>, <<429, 429, 1, -1>>, <<432, 432, 1, -1>>,
      <<436, 438, 2, -1>>, <<441, 441, 1, -1>>, <<445, 445, 1, -1>>,
      <<447, 447, 1, 56>>, <<453, 453, 1, -1>>, <<454, 454, 1, -2>>,
      <<456, 456, 1, -1>>, <<457, 457, 1, -2>>, <<459, 459, 1, -1>>,
      <<460, 460, 1, -2>>, <<462, 476, 2, -1>>, <<477, 477, 1, -79>>,
      <<479, 495, 2, -1>>, <<498, 498, 1, -1>>, <<499, 499, 1, -2>>,
      <<501, 501, 1, -1>>, <<505, 543, 2, -1>>, <<547, 563, 2, -1>>,
      <<572, 572, 1, -1>>, <<575, 576, 1, 10815>>, <<578, 578, 1, -1>>,
      <<583, 591, 2, -1>>, <<592, 592, 1, 10783>>, <<593, 593, 1, 10780>>,
      <<594, 594, 1, 10782>>, <<595, 595, 1, -210>>, <<596, 596, 1, -206>>,
      <<598, 599, 1, -205>>, <<601, 601, 1, -202>>, <<603, 603, 1, -203>>,
      <<604, 604, 1, 42319>>, <<608, 608, 1, -205>>, <<609, 609, 1, 42315>>,
      <<611, 611, 1, -207>>, <<613, 613, 1, 42280>>, <<614, 614, 1, 42308>>,
      <<616, 616, 1, -209>>, <<617, 617, 1, -211>>, <<618, 618, 1, 42308>>,
      <<619, 619, 1, 10743>>, <<620, 620, 1, 42305>>, <<623, 623, 1, -211>>,
      <<625, 625, 1, 10749>>, <<626, 626, 1, -213>>, <<629, 629, 1, -214>>,
      <<637, 637, 1, 10727>>, <<640, 640, 1, -218>>, <<642, 642, 1, 42307>>,
      <<643, 643, 1, -218>>, <<647, 647, 1, 42282>>, <<648, 648, 1, -218>>,
      <<649, 649, 1, -69>>, <<650, 651, 1, -217>>, <<652, 652, 1, -71>>,
      <<658, 658, 1, -219>>, <<669, 669, 1, 42261>>, <<670, 670, 1, 42258>>,
      <<837, 837, 1, 84>>, <<881, 883, 2, -1>>, <<887, 887, 1, -1>>,
      <<891, 893, 1, 130>>, <<940, 940, 1, -38>>, <<941, 943, 1, -37>>,
      <<945, 961, 1, -32>>, <<962, 962, 1, -31>>, <<963, 971, 1, -32>>,
      <<972, 972, 1, -64>>, <<973, 974, 1, -63>>, <<976, 976, 1, -62>>,
      <<977, 977, 1, -57>>, <<981, 981, 1, -47>>, <<982, 982, 1, -54>>,
      <<983, 983, 1, -8>>, <<985, 1007, 2, -1>>, <<1008, 1008, 1, -86>>,
      <<1009, 1009, 1, -80>>, <<1010, 1010, 1, 7>>, <<1011, 1011, 1, -116>>,
      <<1013, 1013, 1, -96>>, <<1016, 1016, 1, -1>>, <<1019, 1019, 1, -1>>,
      <<1072, 1103, 1, -32>>, <<1104, 1119, 1, -80>>, <<1121, 1153, 2, -1>>,
      <<1163, 1215, 2, -1>>, <<1218, 1230, 2, -1>>, <<1231, 1231, 1, -15>>,
      <<1233, 1327, 2, -1>>, <<1377, 1414, 1, -48>>, <<4304, 4346, 1, 3008>>,
      <<4349, 4351, 1, 3008>>, <<5112, 5117, 1, -8>>,
      <<7296, 7296, 1, -6254>>, <<7297, 7297, 1, -6253>>,
      <<7298, 7298, 1, -6244>>, <<7299, 7300, 1, -6242>>,
      <<7301, 7301, 1, -6243>>, <<7302, 7302, 1, -6236>>,
      <<7303, 7303, 1, -6181>>, <<7304, 7304, 1, 35266>>,
      <<7545, 7545, 1, 35332>>, <<7549, 7549, 1, 3814>>,
      <<7566, 7566, 1, 35384>>, <<7681, 7829, 2, -1>>,
      <<7835, 7835, 1, -59>>, <<7841, 7935, 2, -1>>, <<7936, 7943, 1, 8>>,
      <<7952, 7957, 1, 8>>, <<7968, 7975, 1, 8>>, <<7984, 7991, 1, 8>>,
      <<8000, 8005, 1, 8>>, <<8017, 8023, 2, 8>>, <<8032, 8039, 1, 8>>,
      <<8048, 8049, 1, 74>>, <<8050, 8053, 1, 86>>, <<8054, 8055, 1, 100>>,
      <<8056, 8057, 1, 128>>, <<8058, 8059, 1, 112>>, <<8060, 8061, 1, 126>>,
      <<8064, 8071, 1, 8>>, <<8080, 8087, 1, 8>>, <<8096, 8103, 1, 8>>,
      <<8112, 8113, 1, 8>>, <<8115, 8115, 1, 9>>, <<8126, 8126, 1, -7205>>,
      <<8131, 8131, 1, 9>>, <<8144, 8145, 1, 8>>, <<8160, 8161, 1, 8>>,
      <<8165, 8165, 1, 7>>, <<8179, 8179, 1, 9>>, <<8526, 8526, 1, -28>>,
      <<8560, 8575, 1, -16>>, <<8580, 8580, 1, -1>>, <<9424, 9449, 1, -26>>,
      <<11312, 11359, 1, -48>>, <<11361, 11361, 1, -1>>,
      <<11365, 11365, 1, -10795>>, <<11366, 11366, 1, -10792>>,
      <<11368, 11372, 2, -1>>, <<11379, 11379, 1, -1>>,
      <<11382, 11382, 1, -1>>, <<11393, 11491, 2, -1>>,
      <<11500, 11502, 2, -1>>, <<11507, 11507, 1, -1>>,
      <<11520, 11557, 1, -7264>>, <<11559, 11559, 1, -7264>>,
      <<11565, 11565, 1, -7264>>, <<42561, 42605, 2, -1>>,
      <<42625, 42651, 2, -1>>, <<42787, 42799, 2, -1>>,
      <<42803, 42863, 2, -1>>, <<42874, 42876, 2, -1>>,
      <<42879, 42887, 2, -1>>, <<42892, 42892, 1, -1>>,
      <<42897, 42899, 2, -1>>, <<42900, 42900, 1, 48>>,
      <<42903, 42921, 2, -1>>, <<42933, 42947, 2, -1>>,
      <<42952, 42954, 2, -1>>, <<42961, 42961, 1, -1>>,
      <<42967, 42969, 2, -1>>, <<42998, 42998, 1, -1>>,
      <<43859, 43859, 1, -928>>, <<43888, 43967, 1, -38864>>,
      <<65345, 65370, 1, -32>>, <<66600, 66639, 1, -40>>,
      <<66776, 66811, 1, -40>>, <<66967, 66977, 1, -39>>,
      <<66979, 66993, 1, -39>>, <<66995, 67001, 1, -39>>,
      <<67003, 67004, 1, -39>>, <<68800, 68850, 1, -64>>,
      <<71872, 71903, 1, -32>>, <<93792, 93823, 1, -32>>,
      <<125218, 125251, 1, -34>>>>

\* unicode.ToUpper of one rune: below 128 a lower-case letter gives its capital
\* and any other rune itself; from 128 on the mapping of CaseRanges
ToUpperChar(r) ==
    IF r < 128
    THEN IF 97 <= r /\ r <= 122 THEN r - 32 ELSE r
    ELSE IF \E k \in 1..Len(CaseRanges) :
               /\ CaseRanges[k][1] <= r /\ r <= CaseRanges[k][2]
               /\ (r - CaseRanges[k][1]) % CaseRanges[k][3] = 0
         THEN r + CaseRanges[CHOOSE k \in 1..Len(CaseRanges) :
                                /\ CaseRanges[k][1] <= r /\ r <= CaseRanges[k][2]
                                /\ (r - CaseRanges[k][1]) % CaseRanges[k][3] = 0][4]
         ELSE r

\* strings.ToUpper: every rune upper-cased
ToUpper(state) == [i \in 1..Len(state) |-> ToUpperChar(state[i])]

\* the literals of the switch in formatBuildLabel and buildStatusReply
INPROGRESS == Runes(<<"I", "N", "P", "R", "O", "G", "R", "E", "S", "S">>)
SUCCESSFUL == Runes(<<"S", "U", "C", "C", "E", "S", "S", "F", "U", "L">>)
FAILED == Runes(<<"F", "A", "I", "L", "E", "D">>)
STOPPED == Runes(<<"S", "T", "O", "P", "P", "E", "D">>)

\* the switch on the state as spelt in the payload
formatBuildLabelExact(state, name, url) ==
    LET emoji == CASE state = INPROGRESS -> ":hourglass_flowing_sand:"
                   [] state = SUCCESSFUL -> ":white_check_mark:"
                   [] state = FAILED     -> ":x:"
                   [] state = STOPPED    -> ":octagonal_sign:"
                   [] OTHER                -> ":grey_question:"
    IN  IF url # "" THEN <<emoji, " <", url, "|", name, ">">>
        ELSE <<emoji, " ", name>>

formatBuildLabel(state, name, url) ==
    LET upper == ToUpper(state)
        emoji == CASE upper = INPROGRESS -> ":hourglass_flowing_sand:"
                   [] upper = SUCCESSFUL -> ":white_check_mark:"
                   [] upper = FAILED     -> ":x:"
                   [] upper = STOPPED    -> ":octagonal_sign:"
                   [] OTHER                -> ":grey_question:"
    IN  IF url # "" THEN <<emoji, " <", url, "|", name, ">">>
        ELSE <<emoji, " ", name>>

\* the label rendered without reading build_statuses
getBuildLabelNoLookup(tbl, repoSlug, commitHash, err) == <<EmDash>>

\* the label formatted from the zero record when GetBuildStatus returns an error
getBuildLabelOfError(tbl, repoSlug, commitHash, err) ==
    IF commitHash = "" THEN <<EmDash>>
    ELSE IF err THEN formatBuildLabel("", "", "")
    ELSE LET bs == GetBuildStatus(tbl, repoSlug, commitHash)
         IN  IF bs = {} THEN <<EmDash>>
             ELSE LET b == CHOOSE r \in bs : TRUE
                  IN  formatBuildLabel(b.State, b.Name, b.URL)

\* err: GetBuildStatus returns an error
getBuildLabel(tbl, repoSlug, commitHash, err) ==
    IF commitHash = "" THEN <<EmDash>>
    ELSE IF err THEN <<EmDash>>
    ELSE LET bs == GetBuildStatus(tbl, repoSlug, commitHash)
         IN  IF bs = {} THEN <<EmDash>>
             ELSE LET b == CHOOSE r \in bs : TRUE
                  IN  formatBuildLabel(b.State, b.Name, b.URL)

buildStatusReply(state, name, url) ==
    LET upper  == ToUpper(state)
        prefix == CASE upper = INPROGRESS -> <<":hourglass_flowing_sand: Build started">>
                    [] upper = SUCCESSFUL -> <<":white_check_mark: Build passed">>
                    [] upper = FAILED     -> <<":x: Build failed">>
                    [] upper = STOPPED    -> <<":octagonal_sign: Build stopped">>
                    [] OTHER                -> <<":grey_question: Build: ">> \o String(state)
    IN  IF url # "" THEN prefix \o <<": <", url, "|", name, ">">>
        ELSE IF name # "" THEN prefix \o <<": ", name>>
        ELSE prefix

buildApprovalStatus(resolved) ==
    IF Len(resolved) = 0 THEN <<>>
    ELSE <<":white_check_mark: Approved by ">> \o Join(resolved, ", ")

Section(left, right) == [type |-> "section", fields |-> <<left, right>>]
Divider == [type |-> "divider", fields |-> <<>>]
Context(text) == [type |-> "context", fields |-> <<text>>]

\* the card stamped with the moment it was rendered: the number of deliveries
\* received so far stands for the clock
buildPRBlocksStamped(card) ==
    LET repoURL == <<"https://bitbucket.org/", card.repoFullName>>
        row1 == Section(<<"*Pull request*\n*<", card.prURL, "|", card.title, ">*",
                          "\n_rendered at ", ToString(events), "_">>,
                        <<"*Repository*\n<">> \o repoURL \o <<"|", card.repoFullName, ">">>)
        row2 == Section(<<"*Build*\n">> \o card.buildLabel,
                        <<"*Branch*\n'", card.sourceBranch, "' -> '", card.destBranch, "'">>)
        row3 == Section(<<"*Reviewers*\n">> \o card.reviewers,
                        <<"*Author*\n">> \o card.authorLabel)
    IN  <<row1, Divider, row2, Divider, row3, Divider>>
        \o (IF card.statusLine # <<>> THEN <<Context(card.statusLine)>> ELSE <<>>)

buildPRBlocks(card) ==
    LET repoURL == <<"https://bitbucket.org/", card.repoFullName>>
        row1 == Section(<<"*Pull request*\n*<", card.prURL, "|", card.title, ">*">>,
                        <<"*Repository*\n<">> \o repoURL \o <<"|", card.repoFullName, ">">>)
        row2 == Section(<<"*Build*\n">> \o card.buildLabel,
                        <<"*Branch*\n'", card.sourceBranch, "' -> '", card.destBranch, "'">>)
        row3 == Section(<<"*Reviewers*\n">> \o card.reviewers,
                        <<"*Author*\n">> \o card.authorLabel)
    IN  <<row1, Divider, row2, Divider, row3, Divider>>
        \o (IF card.statusLine # <<>> THEN <<Context(card.statusLine)>> ELSE <<>>)


(***************************************************************************)
(* Webhook deliveries.  A delivery is the X-Event-Key header, the raw body *)
(* and the X-Hub-Signature header.  The body is kept as the fields         *)
(* json.Unmarshal reads from it (ok = FALSE: not JSON); a field the event's *)
(* payload shape does not have holds its zero value.  The signature header *)
(* is kept as its algorithm tag (what precedes the hex digits, "" when     *)
(* there is none) and the hex digits: the MAC they encode and whether the  *)
(* digits a-f are written in upper case.                                   *)
(***************************************************************************)
PRMeta(prID) ==
    [title     |-> IF prID = 7 THEN "Fix login" ELSE "Add cache",
     href      |-> IF prID = 7 THEN "https://bb/pr/7" ELSE "https://bb/pr/8",
     src       |-> "feature",
     dst       |-> "main",
     author    |-> "carol",
     reviewers |-> IF prID = 7 THEN <<>> ELSE <<"bob", "alice">>]

PRBody(repo, prID, commit, actor, comment) ==
    [ok |-> TRUE, repo |-> repo, pr |-> prID, commit |-> commit,
     title |-> PRMeta(prID).title, href |-> PRMeta(prID).href,
     src |-> PRMeta(prID).src, dst |-> PRMeta(prID).dst,
     author |-> PRMeta(prID).author, reviewers |-> PRMeta(prID).reviewers,
     actor |-> actor, comment |-> comment,
     state |-> <<>>, name |-> "", url |-> ""]

StatusBody(repo, commit, state, name, url) ==
    [ok |-> TRUE, repo |-> repo, pr |-> 0, commit |-> commit,
     title |-> "", href |-> "", src |-> "", dst |-> "",
     author |-> "", reviewers |-> <<>>, actor |-> "", comment |-> <<>>,
     state |-> state, name |-> name, url |-> url]

BadBody == [StatusBody("", "", <<>>, "", "") EXCEPT !.ok = FALSE]

\* hex.EncodeToString(HMAC-SHA256(secret, body)): the MAC is a keyed hash
\* without collisions, and EncodeToString writes it in lower-case digits
HmacSha256Hex(secret, body) == [mac |-> [key |-> secret, msg |-> body], upper |-> FALSE]

\* the same digits with a-f in upper case (a MAC has such a digit)
UpperHex(hex) == [hex EXCEPT !.upper = TRUE]

NoDigest == HmacSha256Hex("", BadBody)

\* The signature headers a sender may attach to 'body'.
Signatures(body) ==
    {[tag |-> "", hex |-> NoDigest]}
    \cup {[tag |-> "sha256=", hex |-> HmacSha256Hex(k, body)] : k \in SecretValues \cup {"guess"}}
    \cup {[tag |-> "sha256=", hex |-> UpperHex(HmacSha256Hex(k, body))] : k \in SecretValues}
    \cup {[tag |-> "sha256=", hex |-> HmacSha256Hex(k, BadBody)] : k \in SecretValues}
    \cup {[tag |-> t, hex |-> HmacSha256Hex(k, body)] : t \in {"sha1=", ""}, k \in SecretValues}

verifySignatureAnyTag(secret, body, signature) ==
    signature.hex = HmacSha256Hex(secret, body)

\* HasPrefix "sha256=", then the header compared byte for byte with
\* "sha256=" + hex.EncodeToString(mac)
verifySignature(secret, body, signature) ==
    IF signature.tag # "sha256=" THEN FALSE
    ELSE [tag |-> "sha256=", hex |-> HmacSha256Hex(secret, body)] = signature

Delivery(event, body, sig) == [event |-> event, body |-> body, sig |-> sig]

\* What Bitbucket sends for 'body' when the webhook is configured with 'secret'
\* ("": no secret configured, no signature header).
Signed(event, body, secret) ==
    Delivery(event, body,
             IF secret = "" THEN [tag |-> "", hex |-> NoDigest]
             ELSE [tag |-> "sha256=", hex |-> HmacSha256Hex(secret, body)])

\* Every signature header on 'body'
AnySig(event, body) == {Delivery(event, body, s) : s \in Signatures(body)}

Created(repo, prID, commit) == PRBody(repo, prID, commit, "carol", <<>>)
Comment == <<"L", "G", "T", "M">>

(***************************************************************************)
(* The deliveries of a behaviour are drawn from one menu.  acme/api is the *)
(* repository with a webhook secret and subscribed channels, acme/web has  *)
(* neither.                                                                *)
(***************************************************************************)
\* one pull request from creation to merge, with its builds and a comment
MenuLifecycle ==
    {Signed("pullrequest:created", Created("acme/api", 7, "h1"), "s1"),
     Signed("pullrequest:fulfilled", PRBody("acme/api", 7, "h2", "alice", <<>>), "s1"),
     Signed("pullrequest:fulfilled", PRBody("acme/api", 7, "", "alice", <<>>), "s1"),
     Signed("pullrequest:comment_created", PRBody("acme/api", 7, "h1", "bob", Comment), "s1"),
     Signed("repo:commit_status_created", StatusBody("acme/api", "h1", INPROGRESS, "ci", ""), "s1"),
     Signed("repo:commit_status_updated",
            StatusBody("acme/api", "h2", SUCCESSFUL, "ci", "https://ci/1"), "s1")}

\* approvals of one pull request by two users
MenuApproval ==
    {Signed("pullrequest:created", Created("acme/api", 7, "h1"), "s1"),
     Signed("pullrequest:approved", PRBody("acme/api", 7, "h1", "alice", <<>>), "s1"),
     Signed("pullrequest:approved", PRBody("acme/api", 7, "h1", "bob", <<>>), "s1"),
     Signed("pullrequest:unapproved", PRBody("acme/api", 7, "h1", "alice", <<>>), "s1"),
     Signed("pullrequest:rejected", PRBody("acme/api", 7, "h1", "bob", <<>>), "s1"),
     Signed("repo:commit_status_created", StatusBody("acme/api", "h1", SUCCESSFUL, "ci", ""), "s1")}

\* two pull requests of one repository on the same source commit
MenuTwoPRs ==
    {Signed("pullrequest:created", Created("acme/api", 7, "h1"), "s1"),
     Signed("pullrequest:created", Created("acme/api", 8, "h1"), "s1"),
     Signed("pullrequest:approved", PRBody("acme/api", 8, "h1", "bob", <<>>), "s1"),
     Signed("pullrequest:fulfilled", PRBody("acme/api", 8, "", "alice", <<>>), "s1"),
     Signed("repo:commit_status_created",
            StatusBody("acme/api", "h1",
                       Runes(<<"f", "a">>) \o <<305>> \o Runes(<<"l", "e", "d">>),
                       "ci", ""), "s1"),
     Signed("repo:commit_status_created", StatusBody("acme/web", "h1", STOPPED, "ci", ""), "")}

\* any signature header, bodies that are not JSON, an event key the bot does not know
MenuAuth ==
    AnySig("pullrequest:created", Created("acme/api", 7, "h1"))
    \cup AnySig("pullrequest:created", Created("acme/web", 7, "h1"))
    \cup AnySig("pullrequest:fulfilled", PRBody("acme/web", 7, "h1", "alice", <<>>))
    \cup AnySig("pullrequest:comment_created", PRBody("acme/api", 7, "h1", "bob", Comment))
    \cup AnySig("repo:commit_status_updated", StatusBody("acme/api", "h1", SUCCESSFUL, "ci", ""))
    \cup AnySig("pullrequest:updated", Created("acme/api", 7, "h1"))
    \cup AnySig("pullrequest:approved", BadBody)
    \cup AnySig("repo:commit_status_created", BadBody)

\* builds of one commit reported twice, with pull requests on and off that commit
MenuBuilds ==
    {Signed("pullrequest:created", Created("acme/api", 7, "h1"), "s1"),
     Signed("pullrequest:created", Created("acme/api", 8, "h2"), "s1"),
     Signed("repo:commit_status_created", StatusBody("acme/api", "h1", INPROGRESS, "ci", ""), "s1"),
     Signed("repo:commit_status_updated",
            StatusBody("acme/api", "h1", SUCCESSFUL, "ci", "https://ci/1"), "s1")}

\* A comment body of n characters, each of w bytes in UTF-8: "a" is the one
\* byte of an ASCII letter, "D0" "B0" are the two bytes of a Cyrillic letter.
Text(n, w) ==
    IF w = 1 THEN [i \in 1..n |-> "a"]
    ELSE [i \in 1..(2 * n) |-> IF i % 2 = 1 THEN "D0" ELSE "B0"]

\* comments around the truncation limit of onPRComment
MenuComment ==
    {Signed("pullrequest:comment_created",
            PRBody("acme/api", 7, "h1", "bob", Text(300, 1)), "s1"),
     Signed("pullrequest:comment_created",
            PRBody("acme/api", 7, "h1", "alice", Text(301, 1)), "s1"),
     Signed("pullrequest:comment_created",
            PRBody("acme/api", 7, "h1", "bob", Text(200, 2)), "s1")}

\* event keys the bot does not handle, with any body and any signature header
MenuUnknown ==
    AnySig("pullrequest:updated", Created("acme/api", 7, "h1"))
    \cup AnySig("repo:push", BadBody)
    \cup AnySig("issue:created", PRBody("acme/web", 7, "h1", "alice", <<>>))

\* pull-request events of the repository without a webhook secret, with any
\* signature header
MenuNoSecret ==
    AnySig("pullrequest:created", Created("acme/web", 7, "h1"))
    \cup AnySig("pullrequest:approved", PRBody("acme/web", 7, "h1", "alice", <<>>))
    \cup AnySig("pullrequest:comment_created", PRBody("acme/web", 7, "h1", "bob", Comment))

\* build states spelt in lower or mixed case, spelt with the long s (U+017F),
\* whose upper case is S, and a state the bot does not know, spelt with an e
\* acute (U+00E9)
MenuStates ==
    {Signed("repo:commit_status_created",
            StatusBody("acme/api", "h1",
                       Runes(<<"s", "u", "c", "c", "e", "s", "s", "f", "u", "l">>),
                       "ci", ""), "s1"),
     Signed("repo:commit_status_updated",
            StatusBody("acme/api", "h1",
                       Runes(<<"F", "A", "I", "L", "e", "d">>), "ci", "https://ci/2"), "s1"),
     Signed("repo:commit_status_updated",
            StatusBody("acme/api", "h1",
                       Runes(<<"i", "n", "P", "r", "o", "g", "r", "e", "s", "s">>),
                       "", "https://ci/2"), "s1"),
     Signed("repo:commit_status_updated",
            StatusBody("acme/api", "h1",
                       <<383>> \o Runes(<<"t", "o", "p", "p", "e", "d">>), "ci", ""), "s1"),
     Signed("repo:commit_status_updated",
            StatusBody("acme/api", "h1",
                       Runes(<<"P", "a", "u", "s">>) \o <<233>> \o Runes(<<"d">>), "", ""), "s1")}

Menus == {MenuLifecycle, MenuApproval, MenuTwoPRs, MenuAuth, MenuBuilds, MenuComment,
          MenuUnknown, MenuNoSecret, MenuStates}

(***************************************************************************)
(* Goroutines.  A slot holds the locals of one routine started by Handle;  *)
(* pc names the next store statement or Slack call it will make.  calls is *)
(* the history of the Slack calls the routine has made, solo tells that no *)
(* other webhook routine and no login has been in flight during its life   *)
(* (a "/repo add" or a connect may have), and fallback that                *)
(* updateAndReply found no pr_messages row.  storeErr tells that a store   *)
(* statement of the routine other than a user lookup returned an error,    *)
(* actorErr that the lookup of the event's actor did.  A loop of lookups   *)
(* keeps the names it has still to resolve in names and the labels it has  *)
(* resolved in labels.  The handlers of the OAuth callback and of          *)
(* "/repo add" run in a slot as well.                                      *)
(***************************************************************************)
Slots == 1..MaxHandlers

IdleH ==
    [pc |-> "idle", ev |-> "", p |-> BadBody, solo |-> TRUE,
     channels |-> {}, msgs |-> {}, prIDs |-> {}, prID |-> 0, rec |-> {},
     commitHash |-> "", approvers |-> <<>>, names |-> <<>>, labels |-> <<>>,
     actor |-> <<>>, author |-> <<>>, reviewers |-> <<>>,
     statusLine |-> <<>>, reply |-> <<>>,
     blocks |-> <<>>, curCh |-> "", curTS |-> 0, fallback |-> FALSE, calls |-> <<>>,
     storeErr |-> FALSE, actorErr |-> FALSE, secret |-> "",
     team |-> "", workspace |-> "", slackUser |-> "", bbUser |-> ""]

\* a card posted ("post") or edited ("update") at ts of channel ch
Call(op, ch, ts, prID) ==
    [op |-> op, channel |-> ch, ts |-> ts, pr |-> prID, text |-> <<>>, ok |-> TRUE]

\* PostMessage with MsgOptionTS: text posted in the thread of the message at ts
ThreadCall(ch, ts, prID, text) ==
    [op |-> "thread", channel |-> ch, ts |-> ts, pr |-> prID, text |-> text, ok |-> TRUE]

\* the call as logged when Slack answers it with an error (err), as made otherwise
Outcome(call, err) == [call EXCEPT !.ok = ~err]

\* buildCardFromPayload reads pr_commits only when the payload has no hash
BcStart(p) == IF p.commit = "" THEN "bc_commit" ELSE "bc_build"

CommentBudget == 300

\* onPRComment: the text threaded for a comment body (a sequence of bytes)
commentText(raw) ==
    IF Len(raw) > CommentBudget THEN SubSeq(raw, 1, CommentBudget) \o <<"...">> ELSE raw

\* the events whose routine resolves the actor of the payload
ActorEvents == PREvents \ {"pullrequest:created"}

\* The locals a routine starts with, and its first store statement.
StartH(event, p) ==
    LET base == [IdleH EXCEPT !.ev = event, !.p = p, !.commitHash = p.commit]
    IN  CASE event = "pullrequest:created"    -> [base EXCEPT !.pc = "cr_channels"]
          [] event = "pullrequest:fulfilled"  -> [base EXCEPT !.pc = "ru_actor"]
          [] event = "pullrequest:rejected"   -> [base EXCEPT !.pc = "ru_actor"]
          [] event = "pullrequest:approved"   -> [base EXCEPT !.pc = "ap_add"]
          [] event = "pullrequest:unapproved" -> [base EXCEPT !.pc = "un_remove"]
          [] event = "pullrequest:comment_created" -> [base EXCEPT !.pc = "ru_actor"]
          [] OTHER                            -> [base EXCEPT !.pc = "cs_save"]

FreeSlot == CHOOSE h \in Slots : hs[h].pc = "idle" /\ \A g \in Slots : g < h => hs[g].pc # "idle"

\* a handler starts in a free slot; the routines in flight are no longer alone
Start(rec) ==
    hs' = [h \in Slots |->
             IF h = FreeSlot
             THEN [rec EXCEPT !.solo = \A g \in Slots : hs[g].pc = "idle"]
             ELSE IF hs[h].pc = "idle" THEN hs[h]
             ELSE [hs[h] EXCEPT !.solo = FALSE]]

\* 'go h.onX(payload)': the routine takes a free slot
Spawn(event, p) == Start(StartH(event, p))

\* The status Handle answers with, and whether it starts a routine.
\* Handle answering an event key it does not know with 400
HandleOutcomeRejectUnknown(d, secretTbl, secretErr) ==
    IF d.event \notin PREvents \cup StatusEvents THEN [status |-> 400, go |-> FALSE]
    ELSE IF d.event \in StatusEvents
         THEN (IF ~d.body.ok THEN [status |-> 400, go |-> FALSE]
               ELSE [status |-> 200, go |-> TRUE])
    ELSE IF ~d.body.ok THEN [status |-> 400, go |-> FALSE]
    ELSE IF secretErr THEN [status |-> 500, go |-> FALSE]
    ELSE LET secret == GetWebhookSecret(secretTbl, d.body.repo)
         IN  IF secret # "" /\ ~verifySignature(secret, d.body, d.sig)
             THEN [status |-> 401, go |-> FALSE]
             ELSE [status |-> 200, go |-> TRUE]

\* Handle acknowledging a body it could not parse
HandleOutcomeAcceptUnparsed(d, secretTbl, secretErr) ==
    IF d.event \notin PREvents \cup StatusEvents THEN [status |-> 200, go |-> FALSE]
    ELSE IF ~d.body.ok THEN [status |-> 200, go |-> FALSE]
    ELSE IF d.event \in StatusEvents THEN [status |-> 200, go |-> TRUE]
    ELSE IF secretErr THEN [status |-> 500, go |-> FALSE]
    ELSE LET secret == GetWebhookSecret(secretTbl, d.body.repo)
         IN  IF secret # "" /\ ~verifySignature(secret, d.body, d.sig)
             THEN [status |-> 401, go |-> FALSE]
             ELSE [status |-> 200, go |-> TRUE]

\* secretErr: GetWebhookSecret returns an error.
HandleOutcome(d, secretTbl, secretErr) ==
    IF d.event \notin PREvents \cup StatusEvents THEN [status |-> 200, go |-> FALSE]
    ELSE IF d.event \in StatusEvents
         THEN (IF ~d.body.ok THEN [status |-> 400, go |-> FALSE]
               ELSE [status |-> 200, go |-> TRUE])
    ELSE IF ~d.body.ok THEN [status |-> 400, go |-> FALSE]
    ELSE IF secretErr THEN [status |-> 500, go |-> FALSE]
    ELSE LET secret == GetWebhookSecret(secretTbl, d.body.repo)
         IN  IF secret # "" /\ ~verifySignature(secret, d.body, d.sig)
             THEN [status |-> 401, go |-> FALSE]
             ELSE [status |-> 200, go |-> TRUE]

\* Handle reads webhook_secrets for a pull-request event it could parse
ReadsSecret(d) == d.event \in PREvents /\ d.body.ok

Handle(d) ==
    /\ events < MaxEvents
    /\ \E h \in Slots : hs[h].pc = "idle"
    /\ events' = events + 1
    /\ \E secretErr \in (IF ReadsSecret(d) THEN Errs ELSE {FALSE}) :
         LET out == HandleOutcome(d, secrets, secretErr)
         IN  /\ resp' = out.status
             /\ Spend(Cost(secretErr))
             /\ IF out.go THEN Spawn(d.event, d.body) ELSE hs' = hs
    /\ UNCHANGED <<stores, slackMsgs, menu>>


(***************************************************************************)
(* Slack.  PostMessage without a thread ts creates a top-level message and *)
(* returns its ts; UpdateMessage replaces the blocks of the message at ts. *)
(* repo and pr tell which card a message was posted for; a message posted *)
(* with MsgOptionText has its text and no blocks.                          *)
(***************************************************************************)
PostMessage(msgs, ch, repo, prID, blocks) ==
    Append(msgs, [channel |-> ch, repo |-> repo, pr |-> prID, blocks |-> blocks,
                  text |-> <<>>])

\* PostMessage with MsgOptionText and no thread ts
PostMessageText(msgs, ch, text) ==
    Append(msgs, [channel |-> ch, repo |-> "", pr |-> 0, blocks |-> <<>>, text |-> text])

UpdateMessage(msgs, ch, ts, blocks) ==
    IF ts \in 1..Len(msgs) /\ msgs[ts].channel = ch
    THEN [msgs EXCEPT ![ts].blocks = blocks]
    ELSE msgs

Set(h, rec) == hs' = [hs EXCEPT ![h] = rec]

(***************************************************************************)
(* resolveUser of the event's actor (onPRMerged, onPRDeclined, onPRComment *)
(* before anything else; onPRApproved and onPRUnapproved after the         *)
(* approvers' lookups), and the texts formatted from its label.            *)
(***************************************************************************)
ru_actor(h) ==
    /\ hs[h].pc = "ru_actor"
    /\ \E err \in Errs :
         /\ Spend(Cost(err))
         /\ LET actor == resolveUser(userMappings, hs[h].p.actor, err)
                base  == [hs[h] EXCEPT !.actor = actor, !.actorErr = err]
                ev    == hs[h].ev
            IN  Set(h, CASE ev = "pullrequest:fulfilled" ->
                              [base EXCEPT !.pc = "bc_author",
                                           !.statusLine = <<":tada: Merged by ">> \o actor,
                                           !.reply = <<":tada: Merged by ">> \o actor]
                         [] ev = "pullrequest:rejected" ->
                              [base EXCEPT !.pc = "bc_author",
                                           !.statusLine = <<":x: Declined by ">> \o actor,
                                           !.reply = <<":x: Declined by ">> \o actor]
                         [] ev = "pullrequest:approved" ->
                              [base EXCEPT !.pc = "bc_author",
                                           !.statusLine = buildApprovalStatus(hs[h].labels),
                                           !.reply = <<":white_check_mark: ">> \o actor
                                                     \o <<" approved this PR">>]
                         [] ev = "pullrequest:unapproved" ->
                              [base EXCEPT !.pc = "bc_author",
                                           !.statusLine = buildApprovalStatus(hs[h].labels),
                                           !.reply = <<":leftwards_arrow_with_hook: ">> \o actor
                                                     \o <<" removed their approval">>]
                         [] OTHER ->
                              [base EXCEPT !.pc = "cm_msgs",
                                           !.reply = <<":speech_balloon: ">> \o actor
                                                     \o <<" commented:\n>">>
                                                     \o commentText(hs[h].p.comment)])
    /\ UNCHANGED <<stores, slackMsgs, events, resp, menu>>

(***************************************************************************)
(* buildCardFromPayload: the author's lookup, one lookup per reviewer,     *)
(* GetPRCommit when the payload has no hash, GetBuildStatus.               *)
(***************************************************************************)
bc_author(h) ==
    /\ hs[h].pc = "bc_author"
    /\ \E err \in Errs :
         /\ Spend(Cost(err))
         /\ LET p == hs[h].p
            IN  Set(h, [hs[h] EXCEPT !.author = resolveUser(userMappings, p.author, err),
                                     !.names = p.reviewers,
                                     !.labels = <<>>,
                                     !.reviewers = resolveReviewers(p.reviewers, <<>>),
                                     !.pc = IF Len(p.reviewers) = 0 THEN BcStart(p)
                                            ELSE "bc_reviewer"])
    /\ UNCHANGED <<stores, slackMsgs, events, resp, menu>>

\* resolveReviewers: the lookup of the next reviewer
bc_reviewer(h) ==
    /\ hs[h].pc = "bc_reviewer"
    /\ \E err \in Errs :
         /\ Spend(Cost(err))
         /\ LET labels == Append(hs[h].labels,
                                 resolveUser(userMappings, Head(hs[h].names), err))
                rest   == Tail(hs[h].names)
            IN  Set(h, [hs[h] EXCEPT !.labels = labels,
                                     !.names = rest,
                                     !.reviewers = IF rest = <<>>
                                                   THEN resolveReviewers(hs[h].p.reviewers,
                                                                         labels)
                                                   ELSE @,
                                     !.pc = IF rest = <<>> THEN BcStart(hs[h].p)
                                            ELSE "bc_reviewer"])
    /\ UNCHANGED <<stores, slackMsgs, events, resp, menu>>

\* GetPRCommit; its error is discarded and leaves the hash empty
bc_commit(h) ==
    /\ hs[h].pc = "bc_commit"
    /\ \E err \in Errs :
         /\ Spend(Cost(err))
         /\ LET rec == IF err THEN {} ELSE GetPRCommit(prCommits, hs[h].p.repo, hs[h].p.pr)
            IN  Set(h, [hs[h] EXCEPT !.pc = "bc_build",
                                     !.commitHash = IF rec # {}
                                                    THEN (CHOOSE r \in rec : TRUE).CommitHash
                                                    ELSE "",
                                     !.storeErr = @ \/ err])
    /\ UNCHANGED <<stores, slackMsgs, events, resp, menu>>

\* the card, given the labels the lookups returned
buildCardFromPayload(p, author, reviewers, commitHash, statusLine, buildTbl, buildErr) ==
    [title        |-> p.title,
     prURL        |-> p.href,
     repoFullName |-> p.repo,
     sourceBranch |-> p.src,
     destBranch   |-> p.dst,
     authorLabel  |-> author,
     reviewers    |-> reviewers,
     buildLabel   |-> getBuildLabel(buildTbl, p.repo, commitHash, buildErr),
     statusLine   |-> statusLine]

\* getBuildLabel (GetBuildStatus, unless the hash is empty) and the card
bc_build(h) ==
    /\ hs[h].pc = "bc_build"
    /\ \E buildErr \in (IF hs[h].commitHash # "" THEN Errs ELSE {FALSE}) :
         /\ Spend(Cost(buildErr))
         /\ LET card == buildCardFromPayload(hs[h].p, hs[h].author, hs[h].reviewers,
                                             hs[h].commitHash, hs[h].statusLine,
                                             buildStatuses, buildErr)
            IN  Set(h, [hs[h] EXCEPT !.blocks = buildPRBlocks(card),
                                     !.pc = IF hs[h].ev = "pullrequest:created"
                                            THEN "cr_save" ELSE "ur_msgs",
                                     !.storeErr = @ \/ buildErr])
    /\ UNCHANGED <<stores, slackMsgs, events, resp, menu>>

(***************************************************************************)
(* onPRCreated                                                             *)
(***************************************************************************)
cr_channels(h) ==
    /\ hs[h].pc = "cr_channels"
    /\ \E err \in Errs :
         /\ Spend(Cost(err))
         /\ LET channels == ChannelsForRepo(subs, hs[h].p.repo)
            IN  IF err
                THEN Set(h, [hs[h] EXCEPT !.pc = "done", !.storeErr = TRUE])
                ELSE IF channels = {}
                THEN Set(h, [hs[h] EXCEPT !.pc = "done"])
                ELSE Set(h, [hs[h] EXCEPT !.pc = "bc_author", !.channels = channels])
    /\ UNCHANGED <<stores, slackMsgs, events, resp, menu>>

PRCommitRecord(p) ==
    [RepoSlug |-> p.repo, PRID |-> p.pr, CommitHash |-> p.commit, Title |-> p.title,
     URL |-> p.href, AuthorName |-> p.author, ReviewerNames |-> p.reviewers,
     SourceBranch |-> p.src, DestBranch |-> p.dst]

\* SavePRCommit; its error is logged and the routine goes on to post
cr_save(h) ==
    /\ hs[h].pc = "cr_save"
    /\ \E err \in Errs :
         /\ Spend(Cost(err))
         /\ prCommits' = IF err THEN prCommits
                         ELSE SavePRCommit(prCommits, PRCommitRecord(hs[h].p))
         /\ Set(h, [hs[h] EXCEPT !.pc = "cr_post", !.storeErr = @ \/ err])
    /\ UNCHANGED <<userMappings, tokens, subs, secrets, prMessages, prApprovals, buildStatuses,
                   slackMsgs, events, resp, menu>>

\* the loop left at the first PostMessage error
cr_postAbort(h) ==
    /\ hs[h].pc = "cr_post"
    /\ \E ch \in hs[h].channels, err \in Errs :
         /\ Spend(Cost(err))
         /\ slackMsgs' = IF err THEN slackMsgs
                         ELSE PostMessage(slackMsgs, ch, hs[h].p.repo, hs[h].p.pr,
                                          hs[h].blocks)
         /\ IF err
            THEN Set(h, [hs[h] EXCEPT !.pc = "done",
                                      !.calls = Append(@, Outcome(Call("post", ch, 0,
                                                               hs[h].p.pr), TRUE))])
            ELSE Set(h, [hs[h] EXCEPT !.pc = "cr_savemsg", !.curCh = ch,
                                      !.curTS = Len(slackMsgs) + 1,
                                      !.calls = Append(@, Call("post", ch,
                                                               Len(slackMsgs) + 1,
                                                               hs[h].p.pr))])
    /\ UNCHANGED <<stores, events, resp, menu>>

\* PostMessage to the next channel; on an error the loop continues with the
\* channel after it
cr_post(h) ==
    /\ hs[h].pc = "cr_post"
    /\ \E ch \in hs[h].channels, err \in Errs :
         /\ Spend(Cost(err))
         /\ slackMsgs' = IF err THEN slackMsgs
                         ELSE PostMessage(slackMsgs, ch, hs[h].p.repo, hs[h].p.pr,
                                          hs[h].blocks)
         /\ LET rest == hs[h].channels \ {ch}
            IN  IF err
                THEN Set(h, [hs[h] EXCEPT !.channels = rest,
                                          !.pc = IF rest = {} THEN "done" ELSE "cr_post",
                                          !.calls = Append(@, Outcome(Call("post", ch, 0,
                                                                   hs[h].p.pr), TRUE))])
                ELSE Set(h, [hs[h] EXCEPT !.pc = "cr_savemsg", !.curCh = ch,
                                          !.curTS = Len(slackMsgs) + 1,
                                          !.calls = Append(@, Call("post", ch,
                                                                   Len(slackMsgs) + 1,
                                                                   hs[h].p.pr))])
    /\ UNCHANGED <<stores, events, resp, menu>>

cr_savemsg(h) ==
    /\ hs[h].pc = "cr_savemsg"
    /\ \E err \in Errs :
         /\ Spend(Cost(err))
         /\ prMessages' = IF err THEN prMessages
                          ELSE SavePRMessage(prMessages, hs[h].p.repo, hs[h].p.pr,
                                             hs[h].curCh, hs[h].curTS)
         /\ LET rest == hs[h].channels \ {hs[h].curCh}
            IN  Set(h, [hs[h] EXCEPT !.channels = rest,
                                     !.pc = IF rest = {} THEN "done" ELSE "cr_post",
                                     !.storeErr = @ \/ err])
    /\ UNCHANGED <<userMappings, tokens, subs, secrets, prApprovals, prCommits, buildStatuses,
                   slackMsgs, events, resp, menu>>

(***************************************************************************)
(* updateAndReply (onPRMerged, onPRDeclined, onPRApproved, onPRUnapproved) *)
(***************************************************************************)
\* the pointers read for the channels still subscribed only
ur_msgsSubscribedOnly(h) ==
    /\ hs[h].pc = "ur_msgs"
    /\ \E err \in Errs :
         /\ Spend(Cost(err))
         /\ LET msgs == {m \in GetPRMessages(prMessages, hs[h].p.repo, hs[h].p.pr) :
                           m.ChannelID \in ChannelsForRepo(subs, hs[h].p.repo)}
            IN  IF err
                THEN Set(h, [hs[h] EXCEPT !.pc = "done", !.storeErr = TRUE])
                ELSE IF msgs = {}
                THEN Set(h, [hs[h] EXCEPT !.pc = "ur_channels", !.fallback = TRUE])
                ELSE Set(h, [hs[h] EXCEPT !.pc = "ur_update", !.msgs = msgs])
    /\ UNCHANGED <<stores, slackMsgs, events, resp, menu>>

ur_msgs(h) ==
    /\ hs[h].pc = "ur_msgs"
    /\ \E err \in Errs :
         /\ Spend(Cost(err))
         /\ LET msgs == GetPRMessages(prMessages, hs[h].p.repo, hs[h].p.pr)
            IN  IF err
                THEN Set(h, [hs[h] EXCEPT !.pc = "done", !.storeErr = TRUE])
                ELSE IF msgs = {}
                THEN Set(h, [hs[h] EXCEPT !.pc = "ur_channels", !.fallback = TRUE])
                ELSE Set(h, [hs[h] EXCEPT !.pc = "ur_update", !.msgs = msgs])
    /\ UNCHANGED <<stores, slackMsgs, events, resp, menu>>

\* ChannelsForRepo; its error is discarded and the card is posted to the
\* channels returned with it
ur_channels(h) ==
    /\ hs[h].pc = "ur_channels"
    /\ \E err \in Errs :
       \E channels \in (IF err THEN ChannelsForRepoErr(subs, hs[h].p.repo)
                        ELSE {ChannelsForRepo(subs, hs[h].p.repo)}) :
         /\ Spend(Cost(err))
         /\ Set(h, [hs[h] EXCEPT !.channels = channels,
                                 !.pc = IF channels = {} THEN "done" ELSE "ur_post",
                                 !.storeErr = @ \/ err])
    /\ UNCHANGED <<stores, slackMsgs, events, resp, menu>>

ur_post(h) ==
    /\ hs[h].pc = "ur_post"
    /\ \E ch \in hs[h].channels, err \in Errs :
         /\ Spend(Cost(err))
         /\ slackMsgs' = IF err THEN slackMsgs
                         ELSE PostMessage(slackMsgs, ch, hs[h].p.repo, hs[h].p.pr,
                                          hs[h].blocks)
         /\ LET rest == hs[h].channels \ {ch}
                ts   == IF err THEN 0 ELSE Len(slackMsgs) + 1
            IN  Set(h, [hs[h] EXCEPT !.channels = rest,
                                     !.pc = IF rest = {} THEN "done" ELSE "ur_post",
                                     !.calls = Append(@, Outcome(Call("post", ch, ts,
                                                                      hs[h].p.pr), err))])
    /\ UNCHANGED <<stores, events, resp, menu>>

\* the edit answered without the message being replaced
ur_updateNoWrite(h) ==
    /\ hs[h].pc = "ur_update"
    /\ \E m \in hs[h].msgs, err \in Errs :
         /\ Spend(Cost(err))
         /\ slackMsgs' = slackMsgs
         /\ Set(h, [hs[h] EXCEPT !.pc = "ur_thread", !.curCh = m.ChannelID,
                                 !.curTS = m.MessageTS,
                                 !.calls = Append(@, Outcome(Call("update", m.ChannelID,
                                                                  m.MessageTS, hs[h].p.pr),
                                                             err))])
    /\ UNCHANGED <<stores, events, resp, menu>>

ur_update(h) ==
    /\ hs[h].pc = "ur_update"
    /\ \E m \in hs[h].msgs, err \in Errs :
         /\ Spend(Cost(err))
         /\ slackMsgs' = IF err THEN slackMsgs
                         ELSE UpdateMessage(slackMsgs, m.ChannelID, m.MessageTS, hs[h].blocks)
         /\ Set(h, [hs[h] EXCEPT !.pc = "ur_thread", !.curCh = m.ChannelID,
                                 !.curTS = m.MessageTS,
                                 !.calls = Append(@, Outcome(Call("update", m.ChannelID,
                                                                  m.MessageTS, hs[h].p.pr),
                                                             err))])
    /\ UNCHANGED <<stores, events, resp, menu>>

\* the thread reply made only once no other routine is at work
ur_threadWaits(h) ==
    /\ hs[h].pc = "ur_thread"
    /\ \A g \in Slots \ {h} : hs[g].pc \in {"idle", "done"}
    /\ \E err \in Errs :
         /\ Spend(Cost(err))
         /\ LET rest == hs[h].msgs \ {[ChannelID |-> hs[h].curCh, MessageTS |-> hs[h].curTS]}
            IN  Set(h, [hs[h] EXCEPT !.msgs = rest,
                                     !.pc = IF rest = {} THEN "done" ELSE "ur_update",
                                     !.calls = Append(@, Outcome(ThreadCall(hs[h].curCh,
                                                              hs[h].curTS, hs[h].p.pr,
                                                              hs[h].reply), err))])
    /\ UNCHANGED <<stores, slackMsgs, events, resp, menu>>

ur_thread(h) ==
    /\ hs[h].pc = "ur_thread"
    /\ \E err \in Errs :
         /\ Spend(Cost(err))
         /\ LET rest == hs[h].msgs \ {[ChannelID |-> hs[h].curCh, MessageTS |-> hs[h].curTS]}
            IN  Set(h, [hs[h] EXCEPT !.msgs = rest,
                                     !.pc = IF rest = {} THEN "done" ELSE "ur_update",
                                     !.calls = Append(@, Outcome(ThreadCall(hs[h].curCh,
                                                              hs[h].curTS, hs[h].p.pr,
                                                              hs[h].reply), err))])
    /\ UNCHANGED <<stores, slackMsgs, events, resp, menu>>


(***************************************************************************)
(* onPRApproved, onPRUnapproved                                            *)
(***************************************************************************)
\* AddApproval; its error is logged and the routine goes on
ap_add(h) ==
    /\ hs[h].pc = "ap_add"
    /\ \E err \in Errs :
         /\ Spend(Cost(err))
         /\ prApprovals' = IF err THEN prApprovals
                           ELSE AddApproval(prApprovals, hs[h].p.repo, hs[h].p.pr,
                                            hs[h].p.actor)
         /\ Set(h, [hs[h] EXCEPT !.pc = "ap_get", !.storeErr = @ \/ err])
    /\ UNCHANGED <<userMappings, tokens, subs, secrets, prMessages, prCommits, buildStatuses,
                   slackMsgs, events, resp, menu>>

\* RemoveApproval; its error is logged and the routine goes on
un_remove(h) ==
    /\ hs[h].pc = "un_remove"
    /\ \E err \in Errs :
         /\ Spend(Cost(err))
         /\ prApprovals' = IF err THEN prApprovals
                           ELSE RemoveApproval(prApprovals, hs[h].p.repo, hs[h].p.pr,
                                               hs[h].p.actor)
         /\ Set(h, [hs[h] EXCEPT !.pc = "ap_get", !.storeErr = @ \/ err])
    /\ UNCHANGED <<userMappings, tokens, subs, secrets, prMessages, prCommits, buildStatuses,
                   slackMsgs, events, resp, menu>>

\* the approval set read for the actor of the event only
ap_getOwnOnly(h) ==
    /\ hs[h].pc = "ap_get"
    /\ \E err \in Errs :
       \E read \in (IF err THEN GetApprovalsErr(prApprovals, hs[h].p.repo, hs[h].p.pr)
                    ELSE {GetApprovals(prApprovals, hs[h].p.repo, hs[h].p.pr)}) :
         LET IsOwn(userName) == userName = hs[h].p.actor
             approvers == SelectSeq(read, IsOwn)
         IN  /\ Spend(Cost(err))
             /\ Set(h, [hs[h] EXCEPT !.pc = IF approvers = <<>> THEN "ru_actor"
                                            ELSE "ap_approver",
                                     !.approvers = approvers,
                                     !.names = approvers,
                                     !.labels = <<>>,
                                     !.storeErr = @ \/ err])
    /\ UNCHANGED <<stores, slackMsgs, events, resp, menu>>

\* GetApprovals; its error is logged and the routine goes on with the names
\* returned with it
ap_get(h) ==
    /\ hs[h].pc = "ap_get"
    /\ \E err \in Errs :
       \E approvers \in (IF err THEN GetApprovalsErr(prApprovals, hs[h].p.repo, hs[h].p.pr)
                         ELSE {GetApprovals(prApprovals, hs[h].p.repo, hs[h].p.pr)}) :
         /\ Spend(Cost(err))
         /\ Set(h, [hs[h] EXCEPT !.pc = IF approvers = <<>> THEN "ru_actor"
                                        ELSE "ap_approver",
                                 !.approvers = approvers,
                                 !.names = approvers,
                                 !.labels = <<>>,
                                 !.storeErr = @ \/ err])
    /\ UNCHANGED <<stores, slackMsgs, events, resp, menu>>

\* the lookup of the next approver
ap_approver(h) ==
    /\ hs[h].pc = "ap_approver"
    /\ \E err \in Errs :
         /\ Spend(Cost(err))
         /\ LET rest == Tail(hs[h].names)
            IN  Set(h, [hs[h] EXCEPT !.labels = Append(@, resolveUser(userMappings,
                                                                     Head(hs[h].names), err)),
                                     !.names = rest,
                                     !.pc = IF rest = <<>> THEN "ru_actor"
                                            ELSE "ap_approver"])
    /\ UNCHANGED <<stores, slackMsgs, events, resp, menu>>

(***************************************************************************)
(* onPRComment, threadReply                                                *)
(***************************************************************************)
\* onPRComment going through updateAndReply instead of threadReply
cm_msgsViaUpdate(h) ==
    /\ hs[h].pc = "cm_msgs"
    /\ \E err \in Errs :
         /\ Spend(Cost(err))
         /\ LET msgs == GetPRMessages(prMessages, hs[h].p.repo, hs[h].p.pr)
            IN  IF err
                THEN Set(h, [hs[h] EXCEPT !.pc = "done", !.storeErr = TRUE])
                ELSE IF msgs = {}
                THEN Set(h, [hs[h] EXCEPT !.pc = "ur_channels", !.fallback = TRUE])
                ELSE Set(h, [hs[h] EXCEPT !.pc = "ur_update", !.msgs = msgs])
    /\ UNCHANGED <<stores, slackMsgs, events, resp, menu>>

cm_msgs(h) ==
    /\ hs[h].pc = "cm_msgs"
    /\ \E err \in Errs :
         /\ Spend(Cost(err))
         /\ LET msgs == GetPRMessages(prMessages, hs[h].p.repo, hs[h].p.pr)
            IN  IF err
                THEN Set(h, [hs[h] EXCEPT !.pc = "done", !.storeErr = TRUE])
                ELSE Set(h, [hs[h] EXCEPT !.msgs = msgs,
                                          !.pc = IF msgs = {} THEN "done" ELSE "cm_thread"])
    /\ UNCHANGED <<stores, slackMsgs, events, resp, menu>>

cm_thread(h) ==
    /\ hs[h].pc = "cm_thread"
    /\ \E m \in hs[h].msgs, err \in Errs :
         /\ Spend(Cost(err))
         /\ LET rest == hs[h].msgs \ {m}
            IN  Set(h, [hs[h] EXCEPT !.msgs = rest,
                                     !.pc = IF rest = {} THEN "done" ELSE "cm_thread",
                                     !.calls = Append(@, Outcome(ThreadCall(m.ChannelID,
                                                              m.MessageTS, hs[h].p.pr,
                                                              hs[h].reply), err))])
    /\ UNCHANGED <<stores, slackMsgs, events, resp, menu>>

(***************************************************************************)
(* onCommitStatus                                                          *)
(***************************************************************************)
cs_save(h) ==
    /\ hs[h].pc = "cs_save"
    /\ \E err \in Errs :
         /\ Spend(Cost(err))
         /\ buildStatuses' = IF err THEN buildStatuses
                             ELSE SaveBuildStatus(buildStatuses, hs[h].p.repo,
                                                  hs[h].p.commit, hs[h].p.state,
                                                  hs[h].p.name, hs[h].p.url)
         /\ IF err THEN Set(h, [hs[h] EXCEPT !.pc = "done", !.storeErr = TRUE])
            ELSE Set(h, [hs[h] EXCEPT !.pc = "cs_prs"])
    /\ UNCHANGED <<userMappings, tokens, subs, secrets, prMessages, prApprovals, prCommits,
                   slackMsgs, events, resp, menu>>

cs_prs(h) ==
    /\ hs[h].pc = "cs_prs"
    /\ \E err \in Errs :
         /\ Spend(Cost(err))
         /\ LET prIDs == GetPRsByCommit(prCommits, hs[h].p.repo, hs[h].p.commit)
            IN  IF err
                THEN Set(h, [hs[h] EXCEPT !.pc = "done", !.storeErr = TRUE])
                ELSE Set(h, [hs[h] EXCEPT !.prIDs = prIDs,
                                          !.reply = buildStatusReply(hs[h].p.state,
                                                                     hs[h].p.name,
                                                                     hs[h].p.url),
                                          !.pc = IF prIDs = {} THEN "done" ELSE "cs_rec"])
    /\ UNCHANGED <<stores, slackMsgs, events, resp, menu>>

\* the card of a build-status event rendered without the approvals
statusCardNoStatus(rec, repoSlug, author, reviewers, resolved, buildLabel) ==
    [title        |-> rec.Title,
     prURL        |-> rec.URL,
     repoFullName |-> repoSlug,
     sourceBranch |-> rec.SourceBranch,
     destBranch   |-> rec.DestBranch,
     authorLabel  |-> author,
     reviewers    |-> reviewers,
     buildLabel   |-> buildLabel,
     statusLine   |-> <<>>]

\* the card onCommitStatus renders for one PR from its pr_commits row, given
\* the labels the lookups returned
statusCard(rec, repoSlug, author, reviewers, resolved, buildLabel) ==
    [title        |-> rec.Title,
     prURL        |-> rec.URL,
     repoFullName |-> repoSlug,
     sourceBranch |-> rec.SourceBranch,
     destBranch   |-> rec.DestBranch,
     authorLabel  |-> author,
     reviewers    |-> reviewers,
     buildLabel   |-> buildLabel,
     statusLine   |-> buildApprovalStatus(resolved)]

\* GetPRCommit for the next PR of the loop; on an error or no row the loop
\* continues with the PR after it
cs_rec(h) ==
    /\ hs[h].pc = "cs_rec"
    /\ \E id \in hs[h].prIDs, err \in Errs :
         /\ Spend(Cost(err))
         /\ LET rec  == IF err THEN {} ELSE GetPRCommit(prCommits, hs[h].p.repo, id)
                rest == hs[h].prIDs \ {id}
            IN  IF rec = {}
                THEN Set(h, [hs[h] EXCEPT !.prIDs = rest,
                                          !.pc = IF rest = {} THEN "done" ELSE "cs_rec",
                                          !.storeErr = @ \/ err])
                ELSE Set(h, [hs[h] EXCEPT !.prIDs = rest, !.prID = id,
                                          !.pc = "cs_author",
                                          !.rec = rec])
    /\ UNCHANGED <<stores, slackMsgs, events, resp, menu>>

\* the lookup of the author of the stored card
cs_author(h) ==
    /\ hs[h].pc = "cs_author"
    /\ \E err \in Errs :
         /\ Spend(Cost(err))
         /\ LET rec == CHOOSE r \in hs[h].rec : TRUE
            IN  Set(h, [hs[h] EXCEPT !.author = resolveUser(userMappings, rec.AuthorName,
                                                            err),
                                     !.names = rec.ReviewerNames,
                                     !.labels = <<>>,
                                     !.reviewers = <<EmDash>>,
                                     !.pc = IF Len(rec.ReviewerNames) > 0
                                            THEN "cs_reviewer" ELSE "cs_approvals"])
    /\ UNCHANGED <<stores, slackMsgs, events, resp, menu>>

\* the lookup of the next reviewer of the stored card
cs_reviewer(h) ==
    /\ hs[h].pc = "cs_reviewer"
    /\ \E err \in Errs :
         /\ Spend(Cost(err))
         /\ LET labels == Append(hs[h].labels,
                                 resolveUser(userMappings, Head(hs[h].names), err))
                rest   == Tail(hs[h].names)
            IN  Set(h, [hs[h] EXCEPT !.labels = labels,
                                     !.names = rest,
                                     !.reviewers = IF rest = <<>> THEN Join(labels, ", ")
                                                   ELSE @,
                                     !.pc = IF rest = <<>> THEN "cs_approvals"
                                            ELSE "cs_reviewer"])
    /\ UNCHANGED <<stores, slackMsgs, events, resp, menu>>

\* GetApprovals; its error is discarded and the names returned with it are
\* resolved
cs_approvals(h) ==
    /\ hs[h].pc = "cs_approvals"
    /\ \E err \in Errs :
       \E approvers \in (IF err THEN GetApprovalsErr(prApprovals, hs[h].p.repo, hs[h].prID)
                         ELSE {GetApprovals(prApprovals, hs[h].p.repo, hs[h].prID)}) :
         /\ Spend(Cost(err))
         /\ Set(h, [hs[h] EXCEPT !.pc = IF approvers = <<>> THEN "cs_msgs"
                                        ELSE "cs_approver",
                                 !.approvers = approvers,
                                 !.names = approvers,
                                 !.labels = <<>>,
                                 !.storeErr = @ \/ err])
    /\ UNCHANGED <<stores, slackMsgs, events, resp, menu>>

\* the lookup of the next approver
cs_approver(h) ==
    /\ hs[h].pc = "cs_approver"
    /\ \E err \in Errs :
         /\ Spend(Cost(err))
         /\ LET rest == Tail(hs[h].names)
            IN  Set(h, [hs[h] EXCEPT !.labels = Append(@, resolveUser(userMappings,
                                                                     Head(hs[h].names), err)),
                                     !.names = rest,
                                     !.pc = IF rest = <<>> THEN "cs_msgs"
                                            ELSE "cs_approver"])
    /\ UNCHANGED <<stores, slackMsgs, events, resp, menu>>

\* GetPRMessages; on an error the loop continues with the next PR
cs_msgs(h) ==
    /\ hs[h].pc = "cs_msgs"
    /\ \E err \in Errs :
         /\ Spend(Cost(err))
         /\ LET msgs == IF err THEN {}
                        ELSE GetPRMessages(prMessages, hs[h].p.repo, hs[h].prID)
                buildLabel == formatBuildLabel(hs[h].p.state, hs[h].p.name, hs[h].p.url)
                card == statusCard(CHOOSE r \in hs[h].rec : TRUE, hs[h].p.repo,
                                   hs[h].author, hs[h].reviewers, hs[h].labels, buildLabel)
            IN  Set(h, [hs[h] EXCEPT !.msgs = msgs,
                                     !.statusLine = card.statusLine,
                                     !.blocks = IF err THEN @ ELSE buildPRBlocks(card),
                                     !.pc = IF msgs # {} THEN "cs_update"
                                            ELSE IF hs[h].prIDs = {} THEN "done"
                                            ELSE "cs_rec",
                                     !.storeErr = @ \/ err])
    /\ UNCHANGED <<stores, slackMsgs, events, resp, menu>>

cs_update(h) ==
    /\ hs[h].pc = "cs_update"
    /\ \E m \in hs[h].msgs, err \in Errs :
         /\ Spend(Cost(err))
         /\ slackMsgs' = IF err THEN slackMsgs
                         ELSE UpdateMessage(slackMsgs, m.ChannelID, m.MessageTS, hs[h].blocks)
         /\ Set(h, [hs[h] EXCEPT !.pc = "cs_thread", !.curCh = m.ChannelID,
                                 !.curTS = m.MessageTS,
                                 !.calls = Append(@, Outcome(Call("update", m.ChannelID,
                                                                  m.MessageTS, hs[h].prID),
                                                             err))])
    /\ UNCHANGED <<stores, events, resp, menu>>

\* the loop without its thread reply
cs_threadSkip(h) ==
    /\ hs[h].pc = "cs_thread"
    /\ LET rest == hs[h].msgs \ {[ChannelID |-> hs[h].curCh, MessageTS |-> hs[h].curTS]}
       IN  Set(h, [hs[h] EXCEPT !.msgs = rest,
                                !.pc = IF rest # {} THEN "cs_update"
                                       ELSE IF hs[h].prIDs = {} THEN "done" ELSE "cs_rec"])
    /\ UNCHANGED <<stores, slackMsgs, events, resp, faults, menu>>

cs_thread(h) ==
    /\ hs[h].pc = "cs_thread"
    /\ \E err \in Errs :
         /\ Spend(Cost(err))
         /\ LET rest == hs[h].msgs \ {[ChannelID |-> hs[h].curCh, MessageTS |-> hs[h].curTS]}
            IN  Set(h, [hs[h] EXCEPT !.msgs = rest,
                                     !.pc = IF rest # {} THEN "cs_update"
                                            ELSE IF hs[h].prIDs = {} THEN "done"
                                            ELSE "cs_rec",
                                     !.calls = Append(@, Outcome(ThreadCall(hs[h].curCh,
                                                              hs[h].curTS, hs[h].prID,
                                                              hs[h].reply), err))])
    /\ UNCHANGED <<stores, slackMsgs, events, resp, menu>>

\* The database reclaims the slots of the deleted pr_approvals rows.
Vacuum ==
    /\ \E i \in 1..Len(prApprovals) : prApprovals[i].state = "dead"
    /\ prApprovals' = VacuumHeap(prApprovals)
    /\ UNCHANGED <<userMappings, tokens, subs, secrets, prMessages, prCommits, buildStatuses,
                   slackMsgs, hs, events, resp, faults, menu>>

\* the routine returns: its goroutine ends and the slot is free again
Return(h) ==
    /\ hs[h].pc = "done"
    /\ Set(h, IdleH)
    /\ UNCHANGED <<stores, slackMsgs, events, resp, faults, menu>>

(***************************************************************************)
(* The /repo slash command and the delete button (internal/slack).  The    *)
(* routine of "/repo add" holds its channel in curCh, its repository in    *)
(* p.repo and the secret GetOrCreateWebhookSecret returns in secret.       *)
(***************************************************************************)
Repos == {"acme/api", "acme/web"}
Teams == {"T1", "T2"}
\* what crypto/rand and hex encoding can give GetOrCreateWebhookSecret
RandomSecrets == {"r1", "r2"}

\* "/repo add <repo>" in channel ch of a team
RepoAdd(team, ch, repo) ==
    /\ events < MaxEvents
    /\ \E h \in Slots : hs[h].pc = "idle"
    /\ events' = events + 1
    /\ hs' = [hs EXCEPT ![FreeSlot] =
                 [IdleH EXCEPT !.ev = "/repo add", !.pc = "sub_token",
                               !.p = [BadBody EXCEPT !.ok = TRUE, !.repo = repo],
                               !.curCh = ch, !.team = team]]
    /\ UNCHANGED <<stores, slackMsgs, resp, faults, menu>>

\* GetToken: on an error the command is answered with the failure, without a
\* token with the hint to connect; Subscribe is reached with a token only
sub_token(h) ==
    /\ hs[h].pc = "sub_token"
    /\ \E err \in Errs :
         /\ Spend(Cost(err))
         /\ LET rec == GetToken(tokens, hs[h].team)
            IN  IF err
                THEN Set(h, [hs[h] EXCEPT !.pc = "done", !.storeErr = TRUE,
                                          !.reply = <<":x: Failed to check connection status">>])
                ELSE IF rec = {}
                THEN Set(h, [hs[h] EXCEPT !.pc = "done",
                                          !.reply = <<":warning: Bitbucket is not connected yet. Run '/repo connect <workspace>' to get started.">>])
                ELSE Set(h, [hs[h] EXCEPT !.pc = "sub_subscribe"])
    /\ UNCHANGED <<stores, slackMsgs, events, resp, menu>>

\* Subscribe; on an error the command is answered with the failure
sub_subscribe(h) ==
    /\ hs[h].pc = "sub_subscribe"
    /\ \E err \in Errs :
         /\ Spend(Cost(err))
         /\ subs' = IF err THEN subs ELSE Subscribe(subs, hs[h].curCh, hs[h].p.repo)
         /\ Set(h, [hs[h] EXCEPT !.pc = IF err THEN "done" ELSE "gs_select",
                                 !.storeErr = @ \/ err])
    /\ UNCHANGED <<userMappings, tokens, secrets, prMessages, prApprovals, prCommits, buildStatuses,
                   slackMsgs, events, resp, menu>>

\* GetOrCreateWebhookSecret: the SELECT; a secret on file is returned
gs_select(h) ==
    /\ hs[h].pc = "gs_select"
    /\ \E err \in Errs :
         /\ Spend(Cost(err))
         /\ LET secret == GetWebhookSecret(secrets, hs[h].p.repo)
            IN  IF err
                THEN Set(h, [hs[h] EXCEPT !.pc = "done", !.storeErr = TRUE])
                ELSE IF secret # ""
                THEN Set(h, [hs[h] EXCEPT !.pc = "done", !.secret = secret])
                ELSE Set(h, [hs[h] EXCEPT !.pc = "gs_insert"])
    /\ UNCHANGED <<stores, slackMsgs, events, resp, menu>>

\* GetOrCreateWebhookSecret: a new random secret is inserted and returned
gs_insert(h) ==
    /\ hs[h].pc = "gs_insert"
    /\ \E secret \in RandomSecrets, err \in Errs :
         /\ Spend(Cost(err))
         /\ secrets' = IF err THEN secrets
                       ELSE InsertWebhookSecret(secrets, hs[h].p.repo, secret)
         /\ Set(h, [hs[h] EXCEPT !.pc = "done",
                                 !.secret = IF err THEN "" ELSE secret,
                                 !.storeErr = @ \/ err])
    /\ UNCHANGED <<userMappings, tokens, subs, prMessages, prApprovals, prCommits, buildStatuses,
                   slackMsgs, events, resp, menu>>

\* the Delete button of "/repo delete": Unsubscribe, its error only logged
RepoDelete(ch, repo) ==
    /\ events < MaxEvents
    /\ events' = events + 1
    /\ \E err \in Errs :
         /\ Spend(Cost(err))
         /\ subs' = IF err THEN subs ELSE Unsubscribe(subs, ch, repo)
    /\ UNCHANGED <<userMappings, tokens, secrets, prMessages, prApprovals, prCommits, buildStatuses,
                   slackMsgs, hs, resp, menu>>

(***************************************************************************)
(* The OAuth callback (internal/bitbucket/oauth.go).  The request carries  *)
(* the state the authorization URL was built with; the code exchange and   *)
(* the Bitbucket user API have answered when the handler reaches the store.*)
(***************************************************************************)
\* login: the Slack user, the channel of the state, the display name Bitbucket
\* reports for the account
Logins ==
    {[slackUser |-> "U2", channel |-> "D2", bbUser |-> "bob"],
     [slackUser |-> "U1", channel |-> "D1", bbUser |-> "carol"],
     [slackUser |-> "U2", channel |-> "D2", bbUser |-> "alice"]}

\* connect: the team, the channel "/repo connect" was used in, the workspace
Connects ==
    {[team |-> "T2", channel |-> "C1", workspace |-> "acme"],
     [team |-> "T1", channel |-> "C2", workspace |-> "acme"]}

\* HandleCallback with a "login:" state
handleLogin(l) ==
    /\ events < MaxEvents
    /\ \E h \in Slots : hs[h].pc = "idle"
    /\ events' = events + 1
    /\ Start([IdleH EXCEPT !.ev = "oauth:login", !.pc = "lg_save",
                            !.slackUser = l.slackUser, !.bbUser = l.bbUser,
                            !.curCh = l.channel])
    /\ UNCHANGED <<stores, slackMsgs, resp, faults, menu>>

\* SaveUserMapping; on an error the request is answered 500 and nothing is posted
lg_save(h) ==
    /\ hs[h].pc = "lg_save"
    /\ \E err \in Errs :
         /\ Spend(Cost(err))
         /\ LET res == SaveUserMapping(userMappings, hs[h].slackUser, hs[h].bbUser)
                failed == err \/ res.err
            IN  /\ userMappings' = IF failed THEN userMappings ELSE res.rows
                /\ Set(h, [hs[h] EXCEPT !.pc = IF failed THEN "done" ELSE "lg_post",
                                        !.storeErr = failed])
    /\ UNCHANGED <<subs, secrets, prMessages, prApprovals, prCommits, buildStatuses,
                   tokens, slackMsgs, events, resp, menu>>

\* the confirmation posted in the channel of the state; its error is discarded
lg_post(h) ==
    /\ hs[h].pc = "lg_post"
    /\ \E err \in Errs :
         /\ Spend(Cost(err))
         /\ LET text == <<":white_check_mark: <@", hs[h].slackUser,
                          "> linked to Bitbucket account *", hs[h].bbUser,
                          "*. PR notifications will now mention you directly.">>
            IN  /\ slackMsgs' = IF err THEN slackMsgs
                                ELSE PostMessageText(slackMsgs, hs[h].curCh, text)
                /\ Set(h, [hs[h] EXCEPT !.pc = "done", !.reply = text])
    /\ UNCHANGED <<stores, events, resp, menu>>

\* HandleCallback with a "connect:" state
handleConnect(c) ==
    /\ events < MaxEvents
    /\ \E h \in Slots : hs[h].pc = "idle"
    /\ events' = events + 1
    /\ hs' = [hs EXCEPT ![FreeSlot] =
                 [IdleH EXCEPT !.ev = "oauth:connect", !.pc = "cn_save",
                               !.team = c.team, !.workspace = c.workspace,
                               !.curCh = c.channel]]
    /\ UNCHANGED <<stores, slackMsgs, resp, faults, menu>>

\* SaveToken; on an error the request is answered 500 and nothing is posted
cn_save(h) ==
    /\ hs[h].pc = "cn_save"
    /\ \E err \in Errs :
         /\ Spend(Cost(err))
         /\ tokens' = IF err THEN tokens
                      ELSE SaveToken(tokens, hs[h].team, hs[h].workspace)
         /\ Set(h, [hs[h] EXCEPT !.pc = IF err THEN "done" ELSE "cn_post",
                                 !.storeErr = err])
    /\ UNCHANGED <<subs, secrets, prMessages, prApprovals, prCommits, buildStatuses,
                   userMappings, slackMsgs, events, resp, menu>>

\* the confirmation posted in the channel of the state; its error is discarded
cn_post(h) ==
    /\ hs[h].pc = "cn_post"
    /\ \E err \in Errs :
         /\ Spend(Cost(err))
         /\ LET text == <<":white_check_mark: Bitbucket workspace '", hs[h].workspace,
                          "' connected! You can now use '/bb-prs', '/bb-repos', and '/repo add'.">>
            IN  /\ slackMsgs' = IF err THEN slackMsgs
                                ELSE PostMessageText(slackMsgs, hs[h].curCh, text)
                /\ Set(h, [hs[h] EXCEPT !.pc = "done", !.reply = text])
    /\ UNCHANGED <<stores, events, resp, menu>>

\* RepoStore.DeleteToken for a team
DisconnectTeam(team) ==
    /\ events < MaxEvents
    /\ events' = events + 1
    /\ \E err \in Errs :
         /\ Spend(Cost(err))
         /\ tokens' = IF err THEN tokens ELSE DeleteToken(tokens, team)
    /\ UNCHANGED <<subs, secrets, prMessages, prApprovals, prCommits, buildStatuses,
                   userMappings, slackMsgs, hs, resp, menu>>

\* Handler.gitFor for a team: the Bitbucket provider of a command, built from
\* the team's token.  The routine holds the row it read in team and workspace.
gitFor(team) ==
    /\ events < MaxEvents
    /\ \E h \in Slots : hs[h].pc = "idle"
    /\ events' = events + 1
    /\ hs' = [hs EXCEPT ![FreeSlot] =
                 [IdleH EXCEPT !.ev = "gitFor", !.pc = "gf_token", !.team = team]]
    /\ UNCHANGED <<stores, slackMsgs, resp, faults, menu>>

\* GetToken; an error or no row ends gitFor, and so does a token that does
\* not expire within five minutes (expiring = FALSE); one that does is refreshed
gf_token(h) ==
    /\ hs[h].pc = "gf_token"
    /\ \E err \in Errs, expiring \in BOOLEAN :
         /\ Spend(Cost(err))
         /\ LET rec == GetToken(tokens, hs[h].team)
            IN  IF err
                THEN Set(h, [hs[h] EXCEPT !.pc = "done", !.storeErr = TRUE])
                ELSE IF rec = {} \/ ~expiring
                THEN Set(h, [hs[h] EXCEPT !.pc = "done"])
                ELSE Set(h, [hs[h] EXCEPT !.pc = "rf_save",
                                          !.workspace = (CHOOSE r \in rec : TRUE).workspace])
    /\ UNCHANGED <<stores, slackMsgs, events, resp, menu>>

\* OAuthHandler.RefreshTokenBg with the row gitFor read: the token request to
\* Bitbucket (refused: nothing is saved), then SaveToken under the team and
\* the workspace of that row
RefreshTokenBg(h) ==
    /\ hs[h].pc = "rf_save"
    /\ \E refused \in BOOLEAN, err \in Errs :
         /\ ~(refused /\ err)
         /\ Spend(Cost(err))
         /\ tokens' = IF refused \/ err THEN tokens
                      ELSE SaveToken(tokens, hs[h].team, hs[h].workspace)
         /\ Set(h, [hs[h] EXCEPT !.pc = "done", !.storeErr = err])
    /\ UNCHANGED <<subs, secrets, prMessages, prApprovals, prCommits, buildStatuses,
                   userMappings, slackMsgs, events, resp, menu>>

(***************************************************************************)
(* The slash commands that are not answered inline, and the app mention:   *)
(* each starts a goroutine whose only call is respond, PostMessage of a    *)
(* text in the channel, its error logged.  In the texts of the model the   *)
(* quote ' stands for the backquote of the source.                         *)
(***************************************************************************)
Usage ==
    <<"Usage: '/repo connect <workspace>', '/repo add <workspace/repo>', '/repo list', '/repo delete'">>

\* a command: its name, its text split into fields, its channel
SlashCommands ==
    {[Command |-> "/repo", Text |-> <<>>, ChannelID |-> "C1"],
     [Command |-> "/repo", Text |-> <<"status">>, ChannelID |-> "C2"],
     [Command |-> "/bb-prs", Text |-> <<>>, ChannelID |-> "C1"]}

Mentions == {[User |-> "U1", Channel |-> "C1"]}

respond(msgs, channelID, text, err) ==
    IF err THEN msgs ELSE PostMessageText(msgs, channelID, text)

HandleSlashCommand(cmd) ==
    /\ events < MaxEvents
    /\ events' = events + 1
    /\ \E err \in Errs :
         /\ Spend(Cost(err))
         /\ slackMsgs' = respond(slackMsgs, cmd.ChannelID,
                                 IF cmd.Command = "/repo" THEN Usage
                                 ELSE <<"Unknown command: '", cmd.Command, "'">>,
                                 err)
    /\ UNCHANGED <<stores, hs, resp, menu>>

HandleEvent(ev) ==
    /\ events < MaxEvents
    /\ events' = events + 1
    /\ \E err \in Errs :
         /\ Spend(Cost(err))
         /\ slackMsgs' = respond(slackMsgs, ev.Channel,
                                 <<"Hi <@", ev.User,
                                   ">! Use '/repo connect <workspace>' to connect Bitbucket, '/repo add <workspace/repo>' to subscribe a channel, or '/repo list' to see subscriptions.">>,
                                 err)
    /\ UNCHANGED <<stores, hs, resp, menu>>

(***************************************************************************)
(* The system starts with no goroutine in flight, on a database in which   *)
(* acme/api has a webhook secret and two subscribed channels and acme/web  *)
(* has neither.  The database is either fresh, or holds what the created   *)
(* event of acme/api's pull request 7 left: its pr_commits row, its card   *)
(* in both channels and the two pr_messages rows; or, further, what two    *)
(* approvals of that pull request left.                                    *)
(***************************************************************************)
SeedBody == Created("acme/api", 7, "h1")
SeedApprovers == <<"alice", "bob">>
\* user_mappings and bitbucket_tokens at the start: alice has linked her
\* account, team T1 has connected its workspace
InitMappings == {[slack_user_id |-> "U1", bitbucket_username |-> "alice"]}
InitTokens == {[team_id |-> "T1", workspace |-> "acme"]}

SeedBlocks(seed) ==
    buildPRBlocks(buildCardFromPayload(
        SeedBody,
        resolveUser(InitMappings, SeedBody.author, FALSE),
        resolveReviewers(SeedBody.reviewers,
                         resolveAll(InitMappings, SeedBody.reviewers,
                                    NoErrs(SeedBody.reviewers))),
        "h1",
        IF seed = "approved"
        THEN buildApprovalStatus(resolveAll(InitMappings, SeedApprovers,
                                            NoErrs(SeedApprovers)))
        ELSE <<>>,
        {}, FALSE))

\* fresh: no delivery yet; created: after the created event of pull request 7;
\* approved: after alice and then bob approved it as well
Seeds == {"fresh", "created", "approved"}
SeedsOf(m) == IF m = MenuApproval THEN Seeds ELSE Seeds \ {"approved"}

InitStores(seed) ==
    /\ subs = {[channel_id |-> c, repo_slug |-> "acme/api"] : c \in Channels}
    /\ secrets = {[repo_slug |-> "acme/api", secret |-> "s1"]}
    /\ prApprovals = IF seed = "approved"
                     THEN AddApproval(AddApproval(<<>>, "acme/api", 7, SeedApprovers[1]),
                                      "acme/api", 7, SeedApprovers[2])
                     ELSE <<>>
    /\ buildStatuses = {}
    /\ userMappings = InitMappings
    /\ tokens = InitTokens
    /\ prCommits = IF seed # "fresh" THEN SavePRCommit({}, PRCommitRecord(SeedBody)) ELSE {}
    /\ slackMsgs = IF seed # "fresh"
                   THEN PostMessage(PostMessage(<<>>, "C1", "acme/api", 7, SeedBlocks(seed)),
                                    "C2", "acme/api", 7, SeedBlocks(seed))
                   ELSE <<>>
    /\ prMessages = IF seed # "fresh"
                    THEN SavePRMessage(SavePRMessage({}, "acme/api", 7, "C1", 1),
                                       "acme/api", 7, "C2", 2)
                    ELSE {}

InitState ==
    /\ menu \in Menus
    /\ events = 0
    /\ resp = 0
    /\ \E seed \in SeedsOf(menu) : InitStores(seed)
    /\ hs = [h \in Slots |-> IdleH]

\* the store and Slack answer every call
Init == InitState /\ faults = 0

Next ==
    \/ \E d \in menu : Handle(d)
    \/ \E h \in Slots : ru_actor(h)
    \/ \E h \in Slots : bc_author(h)
    \/ \E h \in Slots : bc_reviewer(h)
    \/ \E h \in Slots : bc_commit(h)
    \/ \E h \in Slots : bc_build(h)
    \/ \E h \in Slots : cr_channels(h)
    \/ \E h \in Slots : cr_save(h)
    \/ \E h \in Slots : cr_post(h)
    \/ \E h \in Slots : cr_savemsg(h)
    \/ \E h \in Slots : ur_msgs(h)
    \/ \E h \in Slots : ur_channels(h)
    \/ \E h \in Slots : ur_post(h)
    \/ \E h \in Slots : ur_update(h)
    \/ \E h \in Slots : ur_thread(h)
    \/ \E h \in Slots : ap_add(h)
    \/ \E h \in Slots : un_remove(h)
    \/ \E h \in Slots : ap_get(h)
    \/ \E h \in Slots : ap_approver(h)
    \/ \E h \in Slots : cm_msgs(h)
    \/ \E h \in Slots : cm_thread(h)
    \/ \E h \in Slots : cs_save(h)
    \/ \E h \in Slots : cs_prs(h)
    \/ \E h \in Slots : cs_rec(h)
    \/ \E h \in Slots : cs_author(h)
    \/ \E h \in Slots : cs_reviewer(h)
    \/ \E h \in Slots : cs_approvals(h)
    \/ \E h \in Slots : cs_approver(h)
    \/ \E h \in Slots : cs_msgs(h)
    \/ \E h \in Slots : cs_update(h)
    \/ \E h \in Slots : cs_thread(h)
    \/ \E h \in Slots : Return(h)
    \/ Vacuum
    \/ \E l \in Logins : handleLogin(l)
    \/ \E h \in Slots : lg_save(h)
    \/ \E h \in Slots : lg_post(h)

Spec == Init /\ [][Next]_vars

\* the store and Slack may answer calls with an error
InitFault == InitState /\ faults = MaxFaults

SpecFault == InitFault /\ [][Next]_vars

(***************************************************************************)
(* The subscription commands, the connect callback, the refresh of a       *)
(* team's token and the bot's replies to other commands and mentions on    *)
(* their own: no webhook delivery arrives.  The database is empty, or      *)
(* acme/api has its secret and its two channels; team T1 is connected, or  *)
(* no team is.                                                             *)
(***************************************************************************)
InitSub ==
    /\ menu = {}
    /\ \/ subs = {} /\ secrets = {}
       \/ /\ subs = {[channel_id |-> c, repo_slug |-> "acme/api"] : c \in Channels}
          /\ secrets = {[repo_slug |-> "acme/api", secret |-> "s1"]}
    /\ prMessages = {} /\ prApprovals = <<>> /\ prCommits = {} /\ buildStatuses = {}
    /\ userMappings = InitMappings
    /\ tokens \in {{}, InitTokens}
    /\ slackMsgs = <<>>
    /\ hs = [h \in Slots |-> IdleH]
    /\ events = 0
    /\ resp = 0
    /\ faults = MaxFaults

NextSub ==
    \/ \E team \in Teams, ch \in Channels, repo \in Repos : RepoAdd(team, ch, repo)
    \/ \E ch \in Channels, repo \in Repos : RepoDelete(ch, repo)
    \/ \E c \in Connects : handleConnect(c)
    \/ \E team \in Teams : DisconnectTeam(team)
    \/ \E team \in Teams : gitFor(team)
    \/ \E h \in Slots : gf_token(h)
    \/ \E h \in Slots : RefreshTokenBg(h)
    \/ \E cmd \in SlashCommands : HandleSlashCommand(cmd)
    \/ \E ev \in Mentions : HandleEvent(ev)
    \/ \E h \in Slots : cn_save(h)
    \/ \E h \in Slots : cn_post(h)
    \/ \E h \in Slots : sub_token(h)
    \/ \E h \in Slots : sub_subscribe(h)
    \/ \E h \in Slots : gs_select(h)
    \/ \E h \in Slots : gs_insert(h)
    \/ \E h \in Slots : Return(h)

SpecSub == InitSub /\ [][NextSub]_vars

(***************************************************************************)
(* Webhook deliveries together with the subscription commands.  Pull       *)
(* request 7 of acme/api has its card and its pointer in the channels of   *)
(* cardChs while the channels of subChs are subscribed: both channels in   *)
(* each, or C1 alone in each, or the card in C1 alone with C2 subscribed   *)
(* after it was posted.                                                    *)
(***************************************************************************)
MenuDir ==
    {Signed("pullrequest:created", Created("acme/api", 8, "h1"), "s1"),
     Signed("pullrequest:fulfilled", PRBody("acme/api", 7, "", "alice", <<>>), "s1"),
     Signed("pullrequest:rejected", PRBody("acme/api", 8, "h1", "bob", <<>>), "s1"),
     Signed("pullrequest:approved", PRBody("acme/api", 7, "h1", "alice", <<>>), "s1"),
     Signed("pullrequest:unapproved", PRBody("acme/api", 7, "h1", "alice", <<>>), "s1"),
     Signed("pullrequest:comment_created", PRBody("acme/api", 7, "h1", "bob", Comment), "s1"),
     Signed("repo:commit_status_created", StatusBody("acme/api", "h1", FAILED, "ci", ""), "s1")}

InitStoresDir(subChs, cardChs) ==
    /\ subs = {[channel_id |-> c, repo_slug |-> "acme/api"] : c \in subChs}
    /\ secrets = {[repo_slug |-> "acme/api", secret |-> "s1"]}
    /\ prApprovals = <<>>
    /\ buildStatuses = {}
    /\ userMappings = InitMappings
    /\ tokens = InitTokens
    /\ prCommits = SavePRCommit({}, PRCommitRecord(SeedBody))
    /\ slackMsgs = IF "C2" \in cardChs
                   THEN PostMessage(PostMessage(<<>>, "C1", "acme/api", 7,
                                                SeedBlocks("created")),
                                    "C2", "acme/api", 7, SeedBlocks("created"))
                   ELSE PostMessage(<<>>, "C1", "acme/api", 7, SeedBlocks("created"))
    /\ prMessages = IF "C2" \in cardChs
                    THEN SavePRMessage(SavePRMessage({}, "acme/api", 7, "C1", 1),
                                       "acme/api", 7, "C2", 2)
                    ELSE SavePRMessage({}, "acme/api", 7, "C1", 1)

InitDir ==
    /\ menu = MenuDir
    /\ \/ InitStoresDir({"C1", "C2"}, {"C1", "C2"})
       \/ InitStoresDir({"C1"}, {"C1"})
       \/ InitStoresDir({"C1", "C2"}, {"C1"})
    /\ hs = [h \in Slots |-> IdleH]
    /\ events = 0
    /\ resp = 0
    /\ faults = 0

NextDir ==
    \/ \E d \in menu : Handle(d)
    \/ \E h \in Slots : ru_actor(h)
    \/ \E h \in Slots : bc_author(h)
    \/ \E h \in Slots : bc_reviewer(h)
    \/ \E h \in Slots : bc_commit(h)
    \/ \E h \in Slots : bc_build(h)
    \/ \E h \in Slots : cr_channels(h)
    \/ \E h \in Slots : cr_save(h)
    \/ \E h \in Slots : cr_post(h)
    \/ \E h \in Slots : cr_savemsg(h)
    \/ \E h \in Slots : ur_msgs(h)
    \/ \E h \in Slots : ur_channels(h)
    \/ \E h \in Slots : ur_post(h)
    \/ \E h \in Slots : ur_update(h)
    \/ \E h \in Slots : ur_thread(h)
    \/ \E h \in Slots : ap_add(h)
    \/ \E h \in Slots : un_remove(h)
    \/ \E h \in Slots : ap_get(h)
    \/ \E h \in Slots : ap_approver(h)
    \/ \E h \in Slots : cm_msgs(h)
    \/ \E h \in Slots : cm_thread(h)
    \/ \E h \in Slots : cs_save(h)
    \/ \E h \in Slots : cs_prs(h)
    \/ \E h \in Slots : cs_rec(h)
    \/ \E h \in Slots : cs_author(h)
    \/ \E h \in Slots : cs_reviewer(h)
    \/ \E h \in Slots : cs_approvals(h)
    \/ \E h \in Slots : cs_approver(h)
    \/ \E h \in Slots : cs_msgs(h)
    \/ \E h \in Slots : cs_update(h)
    \/ \E h \in Slots : cs_thread(h)
    \/ \E h \in Slots : Return(h)
    \/ Vacuum
    \/ \E l \in Logins : handleLogin(l)
    \/ \E h \in Slots : lg_save(h)
    \/ \E h \in Slots : lg_post(h)
    \/ \E team \in Teams, ch \in Channels, repo \in Repos : RepoAdd(team, ch, repo)
    \/ \E ch \in Channels, repo \in Repos : RepoDelete(ch, repo)
    \/ \E c \in Connects : handleConnect(c)
    \/ \E team \in Teams : DisconnectTeam(team)
    \/ \E team \in Teams : gitFor(team)
    \/ \E h \in Slots : gf_token(h)
    \/ \E h \in Slots : RefreshTokenBg(h)
    \/ \E cmd \in SlashCommands : HandleSlashCommand(cmd)
    \/ \E ev \in Mentions : HandleEvent(ev)
    \/ \E h \in Slots : cn_save(h)
    \/ \E h \in Slots : cn_post(h)
    \/ \E h \in Slots : sub_token(h)
    \/ \E h \in Slots : sub_subscribe(h)
    \/ \E h \in Slots : gs_select(h)
    \/ \E h \in Slots : gs_insert(h)

SpecDir == InitDir /\ [][NextDir]_vars

(***************************************************************************)
(* Fair scheduling.  The Go scheduler runs every runnable goroutine, and   *)
(* every store statement and Slack call returns, with a result or an       *)
(* error: a routine that can take its next step eventually takes it.       *)
(* Deliveries come from one menu with an event of every kind: pull request *)
(* 7 has its cards in both channels, pull request 8 (with reviewers, on    *)
(* the same commit) has none yet.                                          *)
(***************************************************************************)
MenuFair ==
    {Signed("pullrequest:created", Created("acme/api", 8, "h1"), "s1"),
     Signed("pullrequest:fulfilled", PRBody("acme/api", 8, "", "alice", <<>>), "s1"),
     Signed("pullrequest:approved", PRBody("acme/api", 7, "h1", "alice", <<>>), "s1"),
     Signed("pullrequest:unapproved", PRBody("acme/api", 7, "h1", "alice", <<>>), "s1"),
     Signed("pullrequest:comment_created", PRBody("acme/api", 7, "h1", "bob", Comment), "s1"),
     Signed("repo:commit_status_created", StatusBody("acme/api", "h1", FAILED, "ci", ""), "s1")}

Step(h) ==
    \/ ru_actor(h)
    \/ bc_author(h) \/ bc_reviewer(h) \/ bc_commit(h) \/ bc_build(h)
    \/ cr_channels(h) \/ cr_save(h) \/ cr_post(h) \/ cr_savemsg(h)
    \/ ur_msgs(h) \/ ur_channels(h) \/ ur_post(h) \/ ur_update(h) \/ ur_thread(h)
    \/ ap_add(h) \/ un_remove(h) \/ ap_get(h) \/ ap_approver(h)
    \/ cm_msgs(h) \/ cm_thread(h)
    \/ cs_save(h) \/ cs_prs(h) \/ cs_rec(h) \/ cs_author(h) \/ cs_reviewer(h)
    \/ cs_approvals(h) \/ cs_approver(h) \/ cs_msgs(h)
    \/ cs_update(h) \/ cs_thread(h)
    \/ lg_save(h) \/ lg_post(h)
    \/ Return(h)

InitFair ==
    /\ menu = MenuFair
    /\ InitStores("created")
    /\ hs = [h \in Slots |-> IdleH]
    /\ events = 0
    /\ resp = 0
    /\ faults = MaxFaults

SpecFair == InitFair /\ [][Next]_vars /\ \A h \in Slots : WF_vars(Step(h))


(***************************************************************************)
(* Properties.                                                             *)
(***************************************************************************)
Running(h) == hs[h].pc # "idle"
Done(h) == hs[h].pc = "done"

\* the header is "sha256=" followed by the hex HMAC-SHA256 of the raw body
\* under the secret on file
SignatureMatches(d) ==
    /\ d.sig.tag = "sha256="
    /\ d.sig.hex = HmacSha256Hex(GetWebhookSecret(secrets, d.body.repo), d.body)

SecretOnFile(d) == \E r \in secrets : r.repo_slug = d.body.repo /\ r.secret # ""

\* C1: a pull-request event for a repository with a webhook secret whose
\* signature header is not the tagged HMAC of the body is answered 401, starts
\* no routine and changes no table and no Slack message.
C1_BadSignatureRejected ==
    [][\A d \in menu :
         (Handle(d) /\ d.event \in PREvents /\ d.body.ok /\ SecretOnFile(d)
            /\ ~SignatureMatches(d))
         => (resp' = 401 /\ hs' = hs /\ stores' = stores /\ slackMsgs' = slackMsgs)]_vars

\* C1 happens: a delivery has been answered 401 and nothing runs or was written
C1_Witness ==
    /\ resp = 401
    /\ \A h \in Slots : ~Running(h)
    /\ prCommits = {} /\ slackMsgs = <<>>

\* C2: a build-status event for a repository with a webhook secret whose
\* signature header is missing or wrong is answered 401 and starts no routine
\* (so no build status is written, no card edited, no thread reply posted).
C2_StatusBadSignatureRejected ==
    [][\A d \in menu :
         (Handle(d) /\ d.event \in StatusEvents /\ d.body.ok /\ SecretOnFile(d)
            /\ ~SignatureMatches(d))
         => (resp' = 401 /\ hs' = hs)]_vars

\* C3: pr_messages never holds two rows for the same (repository, PR, channel).
C3_OnePointerPerChannel ==
    \A r1 \in prMessages : \A r2 \in prMessages :
        (r1.repo_slug = r2.repo_slug /\ r1.pr_id = r2.pr_id /\ r1.channel_id = r2.channel_id)
        => r1 = r2

\* C3 happens: two created routines for the same pull request have both posted
\* to both channels and saved their pointers
C3_Witness ==
    /\ \A h \in Slots : h <= 2 =>
          /\ Done(h) /\ hs[h].ev = "pullrequest:created"
          /\ hs[h].p = Created("acme/api", 7, "h1")
          /\ Len(hs[h].calls) = 2
    /\ Cardinality(prMessages) = 2

\* C4: the message ts of a pr_messages row never changes, except in a step of
\* the standalone re-post fallback.
C4_PointerNeverReassigned ==
    [][(\E h \in Slots : ur_post(h))
       \/ \A r \in prMessages : \A q \in prMessages' :
            (r.repo_slug = q.repo_slug /\ r.pr_id = q.pr_id /\ r.channel_id = q.channel_id)
            => q.message_ts = r.message_ts]_vars

\* the top-level message at ts is a card (the other top-level messages are the
\* texts of respond and of the OAuth callbacks)
IsCard(ts) == slackMsgs[ts].text = <<>>

CardsPosted(repo, prID, ch) ==
    {ts \in 1..Len(slackMsgs) :
        /\ IsCard(ts)
        /\ slackMsgs[ts].repo = repo /\ slackMsgs[ts].pr = prID /\ slackMsgs[ts].channel = ch}

\* C5: at most one top-level card message is ever posted per pull request and
\* channel.
C5_OneCardPerChannel ==
    \A ts1 \in 1..Len(slackMsgs) : \A ts2 \in 1..Len(slackMsgs) :
        (IsCard(ts1) /\ IsCard(ts2)
           /\ slackMsgs[ts1].repo = slackMsgs[ts2].repo /\ slackMsgs[ts1].pr = slackMsgs[ts2].pr
           /\ slackMsgs[ts1].channel = slackMsgs[ts2].channel)
        => ts1 = ts2

Subscribed(repo) == {r.channel_id : r \in {x \in subs : x.repo_slug = repo}}

CallsTo(h, op, ch) ==
    {i \in 1..Len(hs[h].calls) : hs[h].calls[i].op = op /\ hs[h].calls[i].channel = ch}

\* C6: a merged or declined routine that found no pointer has, when it returns,
\* posted exactly one top-level card to every channel subscribed to the
\* repository, nothing to any other channel, and made no edit and no thread reply.
C6_FallbackPostsOncePerChannel ==
    \A h \in Slots :
        (Done(h) /\ hs[h].ev \in {"pullrequest:fulfilled", "pullrequest:rejected"}
           /\ hs[h].fallback)
        => /\ \A i \in 1..Len(hs[h].calls) :
                /\ hs[h].calls[i].op = "post"
                /\ slackMsgs[hs[h].calls[i].ts].channel = hs[h].calls[i].channel
                /\ slackMsgs[hs[h].calls[i].ts].blocks = hs[h].blocks
           /\ \A ch \in Channels :
                Cardinality(CallsTo(h, "post", ch))
                  = IF ch \in Subscribed(hs[h].p.repo) THEN 1 ELSE 0

\* C6 happens: a merged routine found no pointer and posted to both channels
C6_Witness ==
    \E h \in Slots :
        /\ Done(h) /\ hs[h].ev = "pullrequest:fulfilled" /\ hs[h].fallback
        /\ Len(hs[h].calls) = 2

\* C7: when a routine other than a comment's found no pointer and posted the
\* card to a channel, that channel has a pointer when the routine returns.
C7_FallbackRecordsPointer ==
    \A h \in Slots :
        (Done(h) /\ hs[h].fallback)
        => \A i \in 1..Len(hs[h].calls) :
              \E r \in prMessages :
                 /\ r.repo_slug = hs[h].p.repo /\ r.pr_id = hs[h].p.pr
                 /\ r.channel_id = hs[h].calls[i].channel

\* C8: when a created routine returns, pr_commits holds the row of the
\* payload's pull request, with the payload's commit hash and content fields.
C8_CreatedPersistsCard ==
    \A h \in Slots :
        (Done(h) /\ hs[h].ev = "pullrequest:created")
        => PRCommitRecord(hs[h].p) \in prCommits

\* C9: when a merged, declined, approved or unapproved routine that ran alone
\* returns, the stored card of its pull request, if there is one, carries the
\* payload's source commit hash.
C9_LaterEventsUpdateCard ==
    \A h \in Slots :
        (Done(h) /\ hs[h].solo /\ hs[h].p.commit # ""
           /\ hs[h].ev \in {"pullrequest:fulfilled", "pullrequest:rejected",
                            "pullrequest:approved", "pullrequest:unapproved"})
        => \A rec \in GetPRCommit(prCommits, hs[h].p.repo, hs[h].p.pr) :
              rec.CommitHash = hs[h].p.commit

\* the build label a card shows: what follows the heading of its Build field
BuildField(blocks) == blocks[3].fields[1]

\* C10: once a created routine for a pull request on commit h and a build-status
\* routine for h have both returned, the card at every pointer of the pull
\* request shows that build status's label.
C10_RaceShowsBuildLabel ==
    \A c \in Slots : \A b \in Slots :
        (Done(c) /\ Done(b) /\ hs[c].ev = "pullrequest:created" /\ hs[b].ev \in StatusEvents
           /\ hs[b].p.repo = hs[c].p.repo /\ hs[b].p.commit = hs[c].p.commit)
        => \A r \in prMessages :
              (r.repo_slug = hs[c].p.repo /\ r.pr_id = hs[c].p.pr)
              => BuildField(slackMsgs[r.message_ts].blocks)
                   = <<"*Build*\n">> \o formatBuildLabel(hs[b].p.state, hs[b].p.name,
                                                          hs[b].p.url)

\* the live pr_approvals rows of a pull request
LiveApprovals(repo, prID) ==
    {i \in 1..Len(prApprovals) :
        /\ prApprovals[i].state = "live"
        /\ prApprovals[i].repo_slug = repo /\ prApprovals[i].pr_id = prID}

\* C11: adding an approver to a table that already holds the approval leaves the
\* table, and so the approver list, as adding once left it; removing an approver
\* who is not a member leaves the approver list of every pull request unchanged.
C11_ApprovalIdempotent ==
    \A prID \in {7, 8} : \A u \in {"alice", "bob"} :
        LET once == AddApproval(prApprovals, "acme/api", prID, u)
        IN  /\ AddApproval(once, "acme/api", prID, u) = once
            /\ GetApprovals(AddApproval(once, "acme/api", prID, u), "acme/api", prID)
                 = GetApprovals(once, "acme/api", prID)
            /\ (\A i \in LiveApprovals("acme/api", prID) : prApprovals[i].user_name # u)
               => \A other \in {7, 8} :
                     GetApprovals(RemoveApproval(prApprovals, "acme/api", prID, u),
                                  "acme/api", other)
                       = GetApprovals(prApprovals, "acme/api", other)

\* C11 happens: two approved routines of alice have both run their INSERT and
\* pull request 7 has alice as its one approver
C11_Witness ==
    /\ \A h \in Slots : /\ hs[h].ev = "pullrequest:approved" /\ hs[h].p.actor = "alice"
                        /\ hs[h].pc \notin {"idle", "ap_add"}
    /\ GetApprovals(prApprovals, "acme/api", 7) = <<"alice">>

\* the approvers of a pull request, earliest INSERT first
RECURSIVE ByInsertion(_)
ByInsertion(rows) ==
    IF rows = {} THEN <<>>
    ELSE LET first == CHOOSE i \in rows :
                        \A j \in rows : prApprovals[i].xmin <= prApprovals[j].xmin
         IN  <<prApprovals[first].user_name>> \o ByInsertion(rows \ {first})

\* the status annotation a card shows: the text of its context block
StatusOf(blocks) == IF Len(blocks) = 7 THEN blocks[7].fields[1] ELSE <<>>

ApprovalReply(ev, actor) ==
    IF ev = "pullrequest:approved"
    THEN <<":white_check_mark: ">> \o resolveUser(userMappings, actor, FALSE) \o <<" approved this PR">>
    ELSE <<":leftwards_arrow_with_hook: ">> \o resolveUser(userMappings, actor, FALSE)
         \o <<" removed their approval">>

\* the Slack calls of routine h with this operation on the message at (ch, ts)
CallsAt(h, op, ch, ts) ==
    {i \in 1..Len(hs[h].calls) :
        /\ hs[h].calls[i].op = op
        /\ hs[h].calls[i].channel = ch /\ hs[h].calls[i].ts = ts}

\* C12: when an approved or unapproved routine that ran alone returns, the card
\* at every pointer of its pull request is annotated "Approved by" with the
\* current approvers in the order they were inserted (no annotation when there
\* is none), and the routine made one edit and one thread reply, the actor's
\* sentence, at each pointer.
C12_ApprovalAnnotation ==
    \A h \in Slots :
        (Done(h) /\ hs[h].solo /\ ~hs[h].fallback
           /\ hs[h].ev \in {"pullrequest:approved", "pullrequest:unapproved"})
        => LET names == ByInsertion(LiveApprovals(hs[h].p.repo, hs[h].p.pr))
           IN  \A m \in GetPRMessages(prMessages, hs[h].p.repo, hs[h].p.pr) :
                 /\ StatusOf(slackMsgs[m.MessageTS].blocks)
                      = buildApprovalStatus(resolveAll(userMappings, names, NoErrs(names)))
                 /\ Cardinality(CallsAt(h, "update", m.ChannelID, m.MessageTS)) = 1
                 /\ Cardinality(CallsAt(h, "thread", m.ChannelID, m.MessageTS)) = 1
                 /\ \A i \in CallsAt(h, "thread", m.ChannelID, m.MessageTS) :
                       hs[h].calls[i].text = ApprovalReply(hs[h].ev, hs[h].p.actor)

\* the pointers pr_messages holds for a pull request, as (channel, ts) pairs
Pointers(repo, prID) ==
    {<<r.channel_id, r.message_ts>> :
        r \in {x \in prMessages : x.repo_slug = repo /\ x.pr_id = prID}}

\* the messages routine h made a call of this operation on
Touched(h, op) ==
    {<<hs[h].calls[i].channel, hs[h].calls[i].ts>> :
        i \in {j \in 1..Len(hs[h].calls) : hs[h].calls[j].op = op}}

\* the Slack user ids a user_mappings row can hold
SlackUsers == {m.slack_user_id : m \in InitMappings} \cup {l.slackUser : l \in Logins}

\* the labels a display name can be shown with
LabelsOf(name) == {<<"*", name, "*">>} \cup {<<"<@", u, ">">> : u \in SlackUsers}

\* the user_mappings rows of a Bitbucket display name
MappingsOf(name) == {m \in userMappings : m.bitbucket_username = name}

\* the label of a display name under the user_mappings of this state
LabelNow(name) ==
    IF MappingsOf(name) = {} THEN <<"*", name, "*">>
    ELSE <<"<@", (CHOOSE m \in MappingsOf(name) : TRUE).slack_user_id, ">">>

\* the status line of a merged or declined routine: its head and the label the
\* routine's lookup gave the actor
TerminalLine(h) ==
    (IF hs[h].ev = "pullrequest:fulfilled" THEN <<":tada: Merged by ">>
     ELSE <<":x: Declined by ">>) \o hs[h].actor

\* C13: a merged or declined routine that found a pointer has, when it returns,
\* posted no top-level message, edited each message it touched once with a card
\* whose status line is "Merged by"/"Declined by" the resolved actor (a label of
\* the payload's actor; the one user_mappings gives when the routine ran alone),
\* and posted one thread reply with that same line under it; when it ran alone,
\* the messages it touched are exactly the pull request's pointers and their
\* cards show that line.
C13_TerminalUpdatesEveryPointer ==
    \A h \in Slots :
        (Done(h) /\ ~hs[h].fallback
           /\ hs[h].ev \in {"pullrequest:fulfilled", "pullrequest:rejected"})
        => LET line == TerminalLine(h)
           IN  /\ hs[h].actor \in LabelsOf(hs[h].p.actor)
               /\ hs[h].solo => hs[h].actor = LabelNow(hs[h].p.actor)
               /\ Touched(h, "post") = {}
               /\ Touched(h, "update") # {}
               /\ Touched(h, "thread") = Touched(h, "update")
               /\ StatusOf(hs[h].blocks) = line
               /\ \A m \in Touched(h, "update") :
                     /\ Cardinality(CallsAt(h, "update", m[1], m[2])) = 1
                     /\ Cardinality(CallsAt(h, "thread", m[1], m[2])) = 1
                     /\ \A i \in CallsAt(h, "thread", m[1], m[2]) :
                           hs[h].calls[i].text = line
               /\ hs[h].solo
                  => /\ Touched(h, "update") = Pointers(hs[h].p.repo, hs[h].p.pr)
                     /\ \A m \in Touched(h, "update") :
                           /\ slackMsgs[m[2]].channel = m[1]
                           /\ StatusOf(slackMsgs[m[2]].blocks) = line

\* C13 happens: a merged routine that ran alone has edited and replied under
\* the pointers of both channels
C13_Witness ==
    \E h \in Slots :
        /\ Done(h) /\ hs[h].solo /\ ~hs[h].fallback
        /\ hs[h].ev = "pullrequest:fulfilled"
        /\ Len(hs[h].calls) = 4

\* the thread reply of a comment whose actor is shown with this label
CommentReply(p, label) ==
    <<":speech_balloon: ">> \o label \o <<" commented:\n>">> \o commentText(p.comment)

\* what holds of a commented routine that has returned
CommentDone(h) ==
    /\ Touched(h, "post") = {} /\ Touched(h, "update") = {}
    /\ \A m \in Touched(h, "thread") :
          Cardinality(CallsAt(h, "thread", m[1], m[2])) = 1
    /\ hs[h].actor \in LabelsOf(hs[h].p.actor)
    /\ hs[h].solo => hs[h].actor = LabelNow(hs[h].p.actor)
    /\ \A i \in 1..Len(hs[h].calls) :
          hs[h].calls[i].text = CommentReply(hs[h].p, hs[h].actor)
    /\ hs[h].solo => Touched(h, "thread") = Pointers(hs[h].p.repo, hs[h].p.pr)

\* C14: no step of a commented routine changes a table or a Slack message, and
\* when the routine returns it has made no post and no edit, one thread reply
\* under each message it replied to, and, when it ran alone, replied under
\* exactly the pointers of the pull request (none: no Slack call at all).
C14_CommentOnlyThreads ==
    [][\A h \in Slots :
          /\ (hs[h].ev = "pullrequest:comment_created" /\ hs'[h] # hs[h])
             => (stores' = stores /\ slackMsgs' = slackMsgs)
          /\ (hs'[h].ev = "pullrequest:comment_created" /\ hs'[h].pc = "done")
             => CommentDone(h)']_vars

\* C14 happens: a commented routine that ran alone has replied under the two
\* pointers of its pull request and returned
C14_Witness ==
    \E h \in Slots :
        /\ Done(h) /\ hs[h].solo /\ hs[h].ev = "pullrequest:comment_created"
        /\ Len(hs[h].calls) = 2

\* the positions of text where a character starts: every byte but the
\* continuation bytes of UTF-8
CharStarts(text) == {i \in 1..Len(text) : text[i] # "B0"}

\* the first k characters of text
FirstChars(text, k) ==
    IF Cardinality(CharStarts(text)) <= k THEN text
    ELSE LET next == CHOOSE i \in CharStarts(text) :
                        Cardinality({j \in CharStarts(text) : j < i}) = k
         IN  SubSeq(text, 1, next - 1)

\* what a thread reply quotes after "commented:"
Quoted(p, text) ==
    SubSeq(text, Len(CommentReply(p, <<"*", p.actor, "*">>)) - Len(commentText(p.comment)) + 1,
           Len(text))

\* C15: the comment a commented routine threads is the body itself when the body
\* has at most 300 characters, and its first 300 characters followed by the
\* ellipsis when it has more.
C15_CommentTruncation ==
    \A h \in Slots :
        hs[h].ev = "pullrequest:comment_created"
        => \A i \in 1..Len(hs[h].calls) :
              Quoted(hs[h].p, hs[h].calls[i].text)
                = IF Cardinality(CharStarts(hs[h].p.comment)) <= CommentBudget
                  THEN hs[h].p.comment
                  ELSE FirstChars(hs[h].p.comment, CommentBudget) \o <<"...">>

\* the pull requests pr_commits holds on a commit of a repository
PRsOn(repo, commit) ==
    {r.PRID : r \in {x \in prCommits : x.RepoSlug = repo /\ x.CommitHash = commit}}

BuildRow(p) ==
    [repo_slug |-> p.repo, commit_hash |-> p.commit,
     State |-> p.state, Name |-> p.name, URL |-> p.url]

\* The runes that stand for a capital letter when case is ignored: the capital,
\* its small letter and, for S and I, the long s (U+017F) and the dotless i
\* (U+0131), the only runes outside ASCII whose upper case is an ASCII letter.
SpellingsOf(capital) ==
    {capital, capital + 32}
      \cup (IF capital = 83 THEN {383} ELSE {})
      \cup (IF capital = 73 THEN {305} ELSE {})

\* a state that spells a word of capitals, case ignored
SameWord(state, word) ==
    /\ Len(state) = Len(word)
    /\ \A i \in 1..Len(word) : state[i] \in SpellingsOf(word[i])

\* the emoji of a build state, in whatever case the state is spelt
EmojiOf(state) ==
    CASE SameWord(state, <<73, 78, 80, 82, 79, 71, 82, 69, 83, 83>>) -> ":hourglass_flowing_sand:"
      [] SameWord(state, <<83, 85, 67, 67, 69, 83, 83, 70, 85, 76>>) -> ":white_check_mark:"
      [] SameWord(state, <<70, 65, 73, 76, 69, 68>>)                 -> ":x:"
      [] SameWord(state, <<83, 84, 79, 80, 80, 69, 68>>)             -> ":octagonal_sign:"
      [] OTHER                                                       -> ":grey_question:"

\* C16: a build-status routine makes Slack calls only after its build status is
\* stored; when one that ran alone returns, the stored build status is the
\* event's, the messages it edited are exactly the pointers of the pull requests
\* stored on the event's commit, each edited once and showing the event's build
\* label (the emoji of its state, in whatever case it is spelt), and it posted
\* no top-level message.
C16_StatusRerendersMatchingPRs ==
    \A h \in Slots :
        hs[h].ev \in StatusEvents
        => /\ hs[h].calls # <<>>
              => GetBuildStatus(buildStatuses, hs[h].p.repo, hs[h].p.commit) # {}
           /\ (Done(h) /\ hs[h].solo)
              => /\ BuildRow(hs[h].p) \in buildStatuses
                 /\ Touched(h, "post") = {}
                 /\ Touched(h, "update")
                      = UNION {Pointers(hs[h].p.repo, prID) :
                                  prID \in PRsOn(hs[h].p.repo, hs[h].p.commit)}
                 /\ \A m \in Touched(h, "update") :
                       /\ Cardinality(CallsAt(h, "update", m[1], m[2])) = 1
                       /\ BuildField(slackMsgs[m[2]].blocks)
                            = <<"*Build*\n">> \o formatBuildLabel(hs[h].p.state, hs[h].p.name,
                                                                   hs[h].p.url)
                       /\ BuildField(slackMsgs[m[2]].blocks)[2] = EmojiOf(hs[h].p.state)

\* C16 happens: a build-status routine that ran alone, for a state spelt
\* "failed" with the dotless i (U+0131), has edited the cards of two pull
\* requests on its commit, in both channels, and they show the cross
C16_Witness ==
    \E h \in Slots :
        /\ Done(h) /\ hs[h].solo /\ hs[h].ev \in StatusEvents
        /\ PRsOn(hs[h].p.repo, hs[h].p.commit) = {7, 8}
        /\ Cardinality(Touched(h, "update")) = 4
        /\ hs[h].p.state = <<102, 97, 305, 108, 101, 100>>
        /\ \A m \in Touched(h, "update") : BuildField(slackMsgs[m[2]].blocks)[2] = ":x:"

\* C17: when a build-status routine that ran alone returns and no pull request
\* is stored on its commit, the build status of (repository, commit) is the
\* event's and the routine has made no Slack call.
C17_UnknownCommitSilent ==
    \A h \in Slots :
        (Done(h) /\ hs[h].solo /\ hs[h].ev \in StatusEvents
           /\ PRsOn(hs[h].p.repo, hs[h].p.commit) = {})
        => /\ GetBuildStatus(buildStatuses, hs[h].p.repo, hs[h].p.commit)
                = {BuildRow(hs[h].p)}
           /\ hs[h].calls = <<>>

\* C17 happens: pull request 7 has its cards, and a build-status routine for a
\* commit no pull request is on has stored the status and returned
C17_Witness ==
    \E h \in Slots :
        /\ Done(h) /\ hs[h].solo /\ hs[h].ev \in StatusEvents
        /\ PRsOn(hs[h].p.repo, hs[h].p.commit) = {}
        /\ Pointers(hs[h].p.repo, 7) # {}
        /\ BuildRow(hs[h].p) \in buildStatuses

\* the thread replies routine h posted for a pull request
RepliesFor(h, prID) ==
    {i \in 1..Len(hs[h].calls) :
        hs[h].calls[i].op = "thread" /\ hs[h].calls[i].pr = prID}

\* C18 as stated: when a build-status routine returns, it has posted exactly one
\* thread reply for every pull request it made a Slack call for, however many
\* channels hold a pointer of that pull request.
C18_OneReplyPerPR ==
    \A h \in Slots :
        (Done(h) /\ hs[h].ev \in StatusEvents)
        => \A i \in 1..Len(hs[h].calls) :
              Cardinality(RepliesFor(h, hs[h].calls[i].pr)) = 1

\* C18 amended: when a build-status routine returns, it has posted exactly one
\* thread reply, the state-specific message of the event, under every message
\* it edited and under no other; when it ran alone these are the pointers of
\* the pull requests on the event's commit, so a pull request gets one reply per
\* channel holding a pointer of it.
C18_OneReplyPerPointer ==
    \A h \in Slots :
        (Done(h) /\ hs[h].ev \in StatusEvents)
        => /\ Touched(h, "thread") = Touched(h, "update")
           /\ \A m \in Touched(h, "thread") :
                 /\ Cardinality(CallsAt(h, "thread", m[1], m[2])) = 1
                 /\ \A i \in CallsAt(h, "thread", m[1], m[2]) :
                       /\ hs[h].calls[i].text
                            = buildStatusReply(hs[h].p.state, hs[h].p.name, hs[h].p.url)
                       /\ hs[h].solo
                          => m \in Pointers(hs[h].p.repo, hs[h].calls[i].pr)
           /\ hs[h].solo
              => \A prID \in PRsOn(hs[h].p.repo, hs[h].p.commit) :
                    Cardinality(RepliesFor(h, prID))
                      = Cardinality(Pointers(hs[h].p.repo, prID))

\* C18 happens: a build-status routine that ran alone has replied twice for
\* pull request 7, once in each channel
C18_Witness ==
    \E h \in Slots :
        /\ Done(h) /\ hs[h].solo /\ hs[h].ev \in StatusEvents
        /\ Cardinality(RepliesFor(h, 7)) = 2
        /\ {m[1] : m \in Touched(h, "thread")} = Channels

\* routine h runs its SaveBuildStatus in this step
Upserts(h) == hs[h].pc = "cs_save" /\ hs'[h].pc = "cs_prs"

\* C19: the upsert of a build-status routine leaves, for its (repository,
\* commit), exactly the state, name and url of its event, whatever was stored
\* before; no other step changes what a read of a key returns, so a key never
\* written reads as not found.
C19_LastWriteWins ==
    [][/\ \A h \in Slots :
             Upserts(h) => GetBuildStatus(buildStatuses', hs[h].p.repo, hs[h].p.commit)
                             = {BuildRow(hs[h].p)}
       /\ \A repo \in {"acme/api", "acme/web"} : \A commit \in {"", "h1", "h2"} :
             GetBuildStatus(buildStatuses', repo, commit)
               # GetBuildStatus(buildStatuses, repo, commit)
             => \E h \in Slots :
                   Upserts(h) /\ hs[h].p.repo = repo /\ hs[h].p.commit = commit]_vars

\* C19 happens: two build statuses of one commit with different states have
\* both been upserted, and one of them is the stored one
C19_Witness ==
    \E h \in Slots : \E g \in Slots :
        /\ hs[h].ev \in StatusEvents /\ hs[g].ev \in StatusEvents
        /\ hs[h].pc \notin {"idle", "cs_save"} /\ hs[g].pc \notin {"idle", "cs_save"}
        /\ hs[h].p.repo = hs[g].p.repo /\ hs[h].p.commit = hs[g].p.commit
        /\ hs[h].p.state # hs[g].p.state
        /\ BuildRow(hs[h].p) \in buildStatuses

\* C20: when a created routine that ran alone returns and a build status is
\* stored for its payload's source commit (the build-status routine had finished
\* before it started), every card it posted shows that build status's label.
C20_CreatedShowsKnownBuild ==
    \A h \in Slots :
        (Done(h) /\ hs[h].solo /\ hs[h].ev = "pullrequest:created"
           /\ hs[h].p.commit # "")
        => \A b \in GetBuildStatus(buildStatuses, hs[h].p.repo, hs[h].p.commit) :
              \A m \in Touched(h, "post") :
                 /\ slackMsgs[m[2]].channel = m[1]
                 /\ BuildField(slackMsgs[m[2]].blocks)
                      = <<"*Build*\n">> \o formatBuildLabel(b.State, b.Name, b.URL)

\* C20 happens: a build status is stored for h1 and a created routine for a pull
\* request on h1 that ran alone has posted its card in both channels
C20_Witness ==
    \E h \in Slots :
        /\ Done(h) /\ hs[h].solo /\ hs[h].ev = "pullrequest:created"
        /\ hs[h].p.commit = "h1"
        /\ GetBuildStatus(buildStatuses, hs[h].p.repo, "h1") # {}
        /\ {m[1] : m \in Touched(h, "post")} = Channels


\* every order in which the names of the live approvals of a pull request can
\* be listed
Orderings(repo, prID) ==
    LET rows == LiveApprovals(repo, prID)
    IN  {[i \in 1..Cardinality(rows) |-> prApprovals[f[i]].user_name] :
            f \in {g \in [1..Cardinality(rows) -> rows] :
                      \A i, j \in 1..Cardinality(rows) : i # j => g[i] # g[j]}}

\* C21: when a created routine that ran alone returns, the card it posted in
\* each channel shows the approvals on record for its pull request (in some
\* order, none when there is none) and the build label of its commit, as they
\* are in the store.
C21_CreatedShowsApprovals ==
    \A h \in Slots :
        (Done(h) /\ hs[h].solo /\ hs[h].ev = "pullrequest:created")
        => \A i \in 1..Len(hs[h].calls) :
             hs[h].calls[i].op = "post"
             => LET blocks == slackMsgs[hs[h].calls[i].ts].blocks
                IN  /\ \E names \in Orderings(hs[h].p.repo, hs[h].p.pr) :
                          StatusOf(blocks) = buildApprovalStatus(resolveAll(userMappings, names, NoErrs(names)))
                    /\ BuildField(blocks)
                         = <<"*Build*\n">> \o getBuildLabel(buildStatuses, hs[h].p.repo,
                                                             hs[h].p.commit, FALSE)


\* the event key of the delivery is one Handle dispatches
Recognized(d) == d.event \in PREvents \cup StatusEvents

\* C25: a delivery whose event key is not one of the handled keys is answered
\* 200 and starts no routine, changes no table and no Slack message, whatever
\* its body and signature header and whether or not its repository has a
\* secret; the answer does not depend on webhook_secrets.
C25_UnknownEventIgnored ==
    [][\A d \in menu :
         (Handle(d) /\ ~Recognized(d))
         => /\ resp' = 200 /\ hs' = hs /\ stores' = stores /\ slackMsgs' = slackMsgs
            /\ HandleOutcome(d, secrets, FALSE) = HandleOutcome(d, {}, FALSE)]_vars

\* C25 happens: only deliveries with unknown event keys were received, among
\* them ones with a parseable body for the repository with a secret, and the
\* last was answered 200 with no routine in flight
C25_Witness ==
    /\ menu = MenuUnknown /\ events = MaxEvents /\ resp = 200
    /\ \A h \in Slots : ~Running(h)

\* C26: a delivery with a handled event key and a parseable body for a
\* repository without a stored webhook secret is answered 200 and starts the
\* routine of its event on its payload, whatever its signature header.
C26_NoSecretAccepted ==
    [][\A d \in menu :
         (Handle(d) /\ Recognized(d) /\ d.body.ok /\ ~SecretOnFile(d))
         => /\ resp' = 200
            /\ \E h \in Slots :
                 /\ ~Running(h) /\ hs'[h].pc # "idle"
                 /\ hs'[h].ev = d.event /\ hs'[h].p = d.body]_vars

\* C26 happens: a routine runs for a pull-request event of acme/web, which has
\* no secret, in a behaviour whose deliveries carry every kind of signature
\* header
C26_Witness ==
    /\ menu = MenuNoSecret /\ resp = 200
    /\ secrets = {[repo_slug |-> "acme/api", secret |-> "s1"]}
    /\ \E h \in Slots : Running(h) /\ hs[h].p.repo = "acme/web"

\* C28: a delivery with a handled event key whose body cannot be parsed is
\* answered 400 and starts no routine, changes no table and no Slack message.
C28_UnparseableRejected ==
    [][\A d \in menu :
         (Handle(d) /\ Recognized(d) /\ ~d.body.ok)
         => (resp' = 400 /\ hs' = hs /\ stores' = stores /\ slackMsgs' = slackMsgs)]_vars

\* C28 happens: a delivery has been answered 400 and no routine runs
C28_Witness ==
    /\ resp = 400
    /\ \A h \in Slots : ~Running(h)
    /\ prCommits = {} /\ slackMsgs = <<>>


\* the approval of userName for the pull request is a live row of pr_approvals
Approves(tbl, repo, prID, userName) ==
    \E i \in 1..Len(tbl) : IsApproval(tbl[i], repo, prID, userName)

\* C29: no step removes a pr_commits row (a row with the same repository and
\* pull-request number remains), none removes a pr_messages row (a row with the
\* same repository, pull request and channel remains), and the only step that
\* removes an approval is the DELETE of an unapproved routine, which removes
\* the approval of the actor of its own event.
C29_NothingRemoved ==
    [][/\ \A r \in prCommits :
            \E q \in prCommits' : q.RepoSlug = r.RepoSlug /\ q.PRID = r.PRID
       /\ \A m \in prMessages :
            \E q \in prMessages' : /\ q.repo_slug = m.repo_slug /\ q.pr_id = m.pr_id
                                   /\ q.channel_id = m.channel_id
       /\ \A i \in 1..Len(prApprovals) :
            (prApprovals[i].state = "live"
               /\ ~Approves(prApprovals', prApprovals[i].repo_slug, prApprovals[i].pr_id,
                            prApprovals[i].user_name))
            => \E h \in Slots :
                 /\ hs[h].pc = "un_remove" /\ hs'[h].pc = "ap_get"
                 /\ hs[h].p.repo = prApprovals[i].repo_slug
                 /\ hs[h].p.pr = prApprovals[i].pr_id
                 /\ hs[h].p.actor = prApprovals[i].user_name]_vars

\* C29 happens: an unapproved routine for alice has returned on a pull request
\* that alice and bob had approved; bob's approval, the pr_commits row and the
\* pointers of both channels are still there
C29_Witness ==
    \E h \in Slots :
        /\ Done(h) /\ hs[h].ev = "pullrequest:unapproved" /\ hs[h].p.actor = "alice"
        /\ ~Approves(prApprovals, "acme/api", 7, "alice")
        /\ Approves(prApprovals, "acme/api", 7, "bob")
        /\ GetPRCommit(prCommits, "acme/api", 7) # {}
        /\ {p[1] : p \in Pointers("acme/api", 7)} = Channels


\* routine h called Slack once, with or without success, for this operation on
\* the message at (ch, ts)
AttemptedOnce(h, op, m) == Cardinality(CallsAt(h, op, m[1], m[2])) = 1

\* C22: when a routine that ran alone and met no store error returns, it has
\* made its Slack calls for every destination of its fan-out, whichever of
\* them Slack answered with an error: a created routine (and the fallback of
\* updateAndReply) one post per subscribed channel, the other routines one edit
\* and one thread reply (a comment: one thread reply) per pointer; and what the
\* calls that succeeded did is in place: the posted card and its pointer, the
\* edited card.
C22_FanOutSurvivesSinkFailure ==
    \A h \in Slots :
        (Done(h) /\ hs[h].solo /\ ~hs[h].storeErr)
        => LET repo == hs[h].p.repo
               pr   == hs[h].p.pr
           IN  CASE hs[h].ev = "pullrequest:created" ->
                      \A ch \in Subscribed(repo) :
                         /\ Cardinality(CallsTo(h, "post", ch)) = 1
                         /\ \A i \in CallsTo(h, "post", ch) :
                              hs[h].calls[i].ok
                              => /\ <<ch, hs[h].calls[i].ts>> \in Pointers(repo, pr)
                                 /\ slackMsgs[hs[h].calls[i].ts].channel = ch
                                 /\ slackMsgs[hs[h].calls[i].ts].blocks = hs[h].blocks
                 [] hs[h].ev \in StatusEvents ->
                      \A id \in PRsOn(repo, hs[h].p.commit) :
                         \A m \in Pointers(repo, id) :
                            AttemptedOnce(h, "update", m) /\ AttemptedOnce(h, "thread", m)
                 [] hs[h].ev = "pullrequest:comment_created" ->
                      \A m \in Pointers(repo, pr) : AttemptedOnce(h, "thread", m)
                 [] OTHER ->
                      IF hs[h].fallback
                      THEN \A ch \in Subscribed(repo) :
                              Cardinality(CallsTo(h, "post", ch)) = 1
                      ELSE \A m \in Pointers(repo, pr) :
                              /\ AttemptedOnce(h, "update", m)
                              /\ AttemptedOnce(h, "thread", m)
                              /\ \A i \in CallsAt(h, "update", m[1], m[2]) :
                                   hs[h].calls[i].ok
                                   => slackMsgs[m[2]].blocks = hs[h].blocks

\* C22 happens: a created routine that ran alone has returned after Slack
\* refused its post to one channel; its post to the other channel succeeded
C22_Witness ==
    \E h \in Slots :
        /\ Done(h) /\ hs[h].solo /\ ~hs[h].storeErr /\ hs[h].ev = "pullrequest:created"
        /\ \E i, j \in 1..Len(hs[h].calls) :
             /\ i < j /\ ~hs[h].calls[i].ok /\ hs[h].calls[j].ok
             /\ hs[h].calls[i].channel # hs[h].calls[j].channel


\* C23: when a routine of a pull-request event other than a comment that ran
\* alone and met no store error returns, every subscribed channel that has no pointer for its pull request while another
\* channel has one (the post of the card to it had failed) has been sent the
\* card by the routine: the routine made a post call to that channel.
C23_MissingChannelRetried ==
    \A h \in Slots :
        (Done(h) /\ hs[h].solo /\ ~hs[h].storeErr
           /\ hs[h].ev \in PREvents \ {"pullrequest:comment_created"})
        => \A ch \in Subscribed(hs[h].p.repo) :
              (/\ Pointers(hs[h].p.repo, hs[h].p.pr) # {}
               /\ \A m \in Pointers(hs[h].p.repo, hs[h].p.pr) : m[1] # ch)
              => CallsTo(h, "post", ch) # {}


\* routine h takes a step of its own (a delivery that starts another routine
\* changes only its solo mark)
OwnStep(h) == [hs'[h] EXCEPT !.solo = hs[h].solo] # hs[h]

\* C24: once a store statement of a routine has returned an error, no later
\* step of that routine writes a table or calls Slack.
C24_StoreErrorAborts ==
    [][\A h \in Slots :
         (hs[h].storeErr /\ hs[h].pc # "done" /\ OwnStep(h))
         => /\ stores' = stores
            /\ hs'[h].calls = hs[h].calls]_vars


\* routine h runs a user_mappings lookup in this step
LooksUp(h) ==
    /\ hs[h].pc \in {"ru_actor", "bc_author", "bc_reviewer", "ap_approver",
                     "cs_author", "cs_reviewer", "cs_approver"}
    /\ [hs'[h] EXCEPT !.solo = hs[h].solo] # hs[h]

\* the display name routine h looks up in its next step
LookedUp(h) ==
    CASE hs[h].pc = "ru_actor"  -> hs[h].p.actor
      [] hs[h].pc = "bc_author" -> hs[h].p.author
      [] hs[h].pc = "cs_author" -> (CHOOSE r \in hs[h].rec : TRUE).AuthorName
      [] OTHER                  -> Head(hs[h].names)

\* the label the step of routine h has got for the name it looked up
Got(h) ==
    CASE hs[h].pc = "ru_actor"                -> hs'[h].actor
      [] hs[h].pc \in {"bc_author", "cs_author"} -> hs'[h].author
      [] OTHER                                -> hs'[h].labels[Len(hs'[h].labels)]

\* C30: every lookup of a routine (of the actor, the author, a reviewer, an
\* approver) gives the mention "<@id>" when user_mappings has a row for the
\* display name and the lookup succeeded, and "*name*" when there is no row or
\* the lookup returned an error, and the routine goes on either way; the thread
\* reply names the actor by that label; and a routine whose lookup of the actor
\* failed, when it returns after running alone without a store error, has made
\* its Slack calls at the pointers of its pull request.
C30_ResolveNeverFails ==
    [][\A h \in Slots :
         /\ LooksUp(h)
              => /\ Got(h) = IF faults' < faults THEN <<"*", LookedUp(h), "*">>
                             ELSE LabelNow(LookedUp(h))
                 /\ hs'[h].pc \notin {"idle", "done"}
                 /\ hs'[h].storeErr = hs[h].storeErr
                 /\ hs[h].pc = "ru_actor"
                      => /\ hs'[h].actorErr = (faults' < faults)
                         /\ SubSeq(hs'[h].reply, 2, 4) = hs'[h].actor
         /\ (hs'[h].pc = "done" /\ hs'[h].ev \in ActorEvents /\ hs'[h].solo
               /\ ~hs'[h].storeErr /\ hs'[h].actorErr)
              => \A m \in Pointers(hs[h].p.repo, hs[h].p.pr)' :
                    \E i \in 1..Len(hs'[h].calls) :
                       /\ hs'[h].calls[i].op = "thread"
                       /\ hs'[h].calls[i].channel = m[1] /\ hs'[h].calls[i].ts = m[2]
                       /\ hs'[h].calls[i].text = hs'[h].reply
                       /\ SubSeq(hs'[h].reply, 2, 4) = <<"*", hs'[h].p.actor, "*">>]_vars

\* C30 happens: the lookup of alice, who has a mapping, returned an error in a
\* routine that ran alone; the routine has returned after replying in the
\* threads of both channels with the label "*alice*"
C30_Witness ==
    \E h \in Slots :
        /\ Done(h) /\ hs[h].solo /\ hs[h].actorErr /\ hs[h].p.actor = "alice"
        /\ MappingsOf("alice") # {}
        /\ SubSeq(hs[h].reply, 2, 4) = <<"*", "alice", "*">>
        /\ {hs[h].calls[i].channel :
               i \in {j \in 1..Len(hs[h].calls) : hs[h].calls[j].op = "thread"}} = Channels


\* C27: no step changes or removes a stored webhook secret: every row of
\* webhook_secrets is in the table after the step, and a repository never has
\* two rows.
C27_SecretImmutable ==
    [][/\ \A r \in secrets : r \in secrets'
       /\ \A r, q \in secrets' : r.repo_slug = q.repo_slug => r = q]_vars

\* C27 happens: two "/repo add" commands for a repository without a secret ran
\* GetOrCreateWebhookSecret concurrently; both inserted, and the routine that
\* has returned holds a generated secret that is not the one the other had
\* stored
C27_Witness ==
    \E h \in Slots :
        /\ Done(h) /\ hs[h].ev = "/repo add" /\ hs[h].secret \in RandomSecrets
        /\ GetWebhookSecret(secrets, hs[h].p.repo) \in RandomSecrets \ {hs[h].secret}

\* routine h holds a card it rendered
Rendered(h) ==
    \/ hs[h].ev \in PREvents /\ hs[h].blocks # <<>>
    \/ hs[h].ev \in StatusEvents /\ hs[h].pc \in {"cs_update", "cs_thread"}

\* the card of routine h was rendered with a non-empty status annotation
Annotated(h) ==
    IF hs[h].ev \in StatusEvents THEN hs[h].approvers # <<>> ELSE hs[h].statusLine # <<>>

\* three two-field rows (pull request and repository, build and branch,
\* reviewers and author), each followed by a divider
ThreeRows(blocks) ==
    /\ Len(blocks) >= 6
    /\ \A i \in {1, 3, 5} : blocks[i].type = "section" /\ Len(blocks[i].fields) = 2
    /\ \A i \in {2, 4, 6} : blocks[i].type = "divider" /\ blocks[i].fields = <<>>
    /\ blocks[1].fields[1][1] = "*Pull request*\n*<"
    /\ blocks[1].fields[2][1] = "*Repository*\n<"
    /\ blocks[3].fields[1][1] = "*Build*\n"
    /\ blocks[3].fields[2][1] = "*Branch*\n'"
    /\ blocks[5].fields[1][1] = "*Reviewers*\n"
    /\ blocks[5].fields[2][1] = "*Author*\n"

\* what a routine handed to the renderer: title, link, repository, branches,
\* author label, reviewers label and annotation, from its payload (a
\* pull-request routine) or from the pr_commits row it read (a build-status
\* routine), and the build label, which only the card keeps
CardInputs(h) ==
    LET fromRow == hs[h].ev \in StatusEvents
        row     == CHOOSE r \in hs[h].rec : TRUE
    IN  [title      |-> IF fromRow THEN row.Title ELSE hs[h].p.title,
         prURL      |-> IF fromRow THEN row.URL ELSE hs[h].p.href,
         repo       |-> hs[h].p.repo,
         src        |-> IF fromRow THEN row.SourceBranch ELSE hs[h].p.src,
         dst        |-> IF fromRow THEN row.DestBranch ELSE hs[h].p.dst,
         author     |-> hs[h].author,
         reviewers  |-> hs[h].reviewers,
         build      |-> Tail(BuildField(hs[h].blocks)),
         statusLine |-> hs[h].statusLine]

\* the card of the layout comment of buildPRBlocks, block by block
LayoutOf(in) ==
    LET three ==
          <<[type |-> "section",
             fields |-> <<<<"*Pull request*\n*<", in.prURL, "|", in.title, ">*">>,
                          <<"*Repository*\n<", "https://bitbucket.org/", in.repo, "|",
                            in.repo, ">">>>>],
            [type |-> "divider", fields |-> <<>>],
            [type |-> "section",
             fields |-> <<<<"*Build*\n">> \o in.build,
                          <<"*Branch*\n'", in.src, "' -> '", in.dst, "'">>>>],
            [type |-> "divider", fields |-> <<>>],
            [type |-> "section",
             fields |-> <<<<"*Reviewers*\n">> \o in.reviewers,
                          <<"*Author*\n">> \o in.author>>],
            [type |-> "divider", fields |-> <<>>]>>
    IN  IF in.statusLine = <<>> THEN three
        ELSE Append(three, [type |-> "context", fields |-> <<in.statusLine>>])

\* C31: every card Slack shows has the three rows, each followed by a divider,
\* and nothing else but a trailing context block with a non-empty text; the
\* card a routine rendered has the context block exactly when the annotation
\* it rendered with is not empty, and is the card of the layout for the inputs
\* the routine handed to the renderer, whenever and by whichever routine it was
\* rendered: two routines that handed over the same inputs hold identical
\* cards.
C31_CardShape ==
    /\ \A ts \in 1..Len(slackMsgs) :
         IsCard(ts)
         => /\ ThreeRows(slackMsgs[ts].blocks)
            /\ Len(slackMsgs[ts].blocks) <= 7
            /\ Len(slackMsgs[ts].blocks) = 7
                 => (slackMsgs[ts].blocks[7].type = "context"
                       /\ slackMsgs[ts].blocks[7].fields[1] # <<>>)
    /\ \A h \in Slots :
         Rendered(h)
           => /\ ThreeRows(hs[h].blocks)
              /\ Len(hs[h].blocks) = IF Annotated(h) THEN 7 ELSE 6
              /\ Annotated(h) => hs[h].blocks[7].type = "context"
              /\ hs[h].blocks = LayoutOf(CardInputs(h))
    /\ \A h \in Slots : \A g \in Slots :
         (Rendered(h) /\ Rendered(g) /\ CardInputs(h) = CardInputs(g))
           => hs[h].blocks = hs[g].blocks

\* one routine rendered a card without annotation and another, from the same
\* pull request, one with an annotation
C31_Witness ==
    \E h \in Slots : \E g \in Slots :
        /\ Rendered(h) /\ Rendered(g) /\ hs[h].ev \in PREvents /\ hs[g].ev \in PREvents
        /\ hs[h].p.repo = hs[g].p.repo /\ hs[h].p.pr = hs[g].p.pr
        /\ ~Annotated(h) /\ Len(hs[h].blocks) = 6
        /\ Annotated(g) /\ Len(hs[g].blocks) = 7

\* the reviewers field of a card
ReviewersField(blocks) == blocks[5].fields[1]

\* C32: the step of a pull-request routine that renders its card goes on to the
\* routine's next stage with a card whose build label is the dash when the
\* commit hash is empty, when build_statuses has no row for the commit or when
\* reading it returned an error, and whose reviewers are the dash when the
\* pull request lists none; a build-status routine's card shows the dash for a
\* stored pull request without reviewers.
C32_DefaultsNeverAbort ==
    [][\A h \in Slots :
         /\ (hs[h].pc = "bc_build" /\ hs'[h].pc # "bc_build")
              => /\ hs'[h].pc = IF hs[h].ev = "pullrequest:created"
                                THEN "cr_save" ELSE "ur_msgs"
                 /\ ThreeRows(hs'[h].blocks)
                 /\ (\/ hs[h].commitHash = ""
                     \/ ~\E r \in buildStatuses : /\ r.repo_slug = hs[h].p.repo
                                                  /\ r.commit_hash = hs[h].commitHash
                     \/ hs'[h].storeErr /\ ~hs[h].storeErr)
                      => BuildField(hs'[h].blocks) = <<"*Build*\n", EmDash>>
                 /\ hs[h].p.reviewers = <<>>
                      => ReviewersField(hs'[h].blocks) = <<"*Reviewers*\n", EmDash>>
         /\ (hs[h].pc = "cs_msgs" /\ hs'[h].pc # "cs_msgs" /\ faults' = faults)
              => /\ ThreeRows(hs'[h].blocks)
                 /\ BuildField(hs'[h].blocks)
                      = <<"*Build*\n">> \o formatBuildLabel(hs[h].p.state, hs[h].p.name,
                                                             hs[h].p.url)
                 /\ (CHOOSE r \in hs[h].rec : TRUE).ReviewerNames = <<>>
                      => ReviewersField(hs'[h].blocks) = <<"*Reviewers*\n", EmDash>>
      ]_vars

\* a created routine running alone went on with a dash as build label after the
\* read of a stored build status returned an error
C32_Witness ==
    \E h \in Slots :
        /\ hs[h].pc = "cr_save" /\ hs[h].solo
        /\ hs[h].commitHash # "" /\ hs[h].storeErr
        /\ \E r \in buildStatuses : /\ r.repo_slug = hs[h].p.repo
                                    /\ r.commit_hash = hs[h].commitHash
        /\ BuildField(hs[h].blocks) = <<"*Build*\n", EmDash>>
        /\ hs[h].p.reviewers = <<>>
        /\ ReviewersField(hs[h].blocks) = <<"*Reviewers*\n", EmDash>>

\* approved routine h has read the approval set it renders from
HasRead(h) ==
    hs[h].ev = "pullrequest:approved" /\ hs[h].pc \notin {"idle", "ap_add", "ap_get"}

\* the approval set routine h renders from lacks the approval of g's event
Lacks(h, g) == \A i \in 1..Len(hs[h].approvers) : hs[h].approvers[i] # hs[g].p.actor

\* h and g handle approved events by distinct users for the same pull request,
\* were in flight at the same time, and both have read the approval set
Racing(h, g) ==
    /\ h # g /\ HasRead(h) /\ HasRead(g)
    /\ ~hs[h].solo /\ ~hs[g].solo
    /\ hs[h].p.repo = hs[g].p.repo /\ hs[h].p.pr = hs[g].p.pr
    /\ hs[h].p.actor # hs[g].p.actor

\* C33: two racing approved routines can both render from an approval set that
\* lacks the other routine's approval (C33_BothStale is such a state), and
\* they do so only when one of the two approvals is not on record, its insert
\* having failed or an unapproved event having withdrawn it, or when a store
\* statement of one of them returned an error: each routine inserts its own
\* approval before it reads, so with both inserts made and both reads whole
\* the routine that reads second reads both.
C33_BothStaleOnlyUnrecorded ==
    \A h \in Slots : \A g \in Slots :
        (Racing(h, g) /\ Lacks(h, g) /\ Lacks(g, h))
          => \/ hs[h].storeErr \/ hs[g].storeErr
             \/ ~(/\ Approves(prApprovals, hs[h].p.repo, hs[h].p.pr, hs[h].p.actor)
                  /\ Approves(prApprovals, hs[g].p.repo, hs[g].p.pr, hs[g].p.actor))

\* two racing approved routines have both returned, each after editing the
\* cards of the pull request with what it rendered from a set that lacks the
\* other's approval
C33_BothStale ==
    \E h \in Slots : \E g \in Slots :
        /\ Racing(h, g) /\ Done(h) /\ Done(g)
        /\ Lacks(h, g) /\ Lacks(g, h)
        /\ Touched(h, "update") # {} /\ Touched(g, "update") # {}

\* the live pr_approvals rows of this user for the pull request
ApprovalsBy(repo, prID, userName) ==
    {i \in LiveApprovals(repo, prID) : prApprovals[i].user_name = userName}

\* routine h made a Slack call in this step
Called(h) == Len(hs'[h].calls) = Len(hs[h].calls) + 1

\* the call routine h made in this step
NewCall(h) == hs'[h].calls[Len(hs'[h].calls)]

\* C35: when two racing approved routines, the only events delivered, have
\* both returned, pr_approvals holds exactly one live row for each of the two
\* approvers and the card at every pointer is the card one of the two rendered;
\* and in every step, an edit Slack applies replaces the message by the card
\* of the routine that made it, and a message's content changes only by such
\* an edit: the card on display is the one of the edit applied last.
C35_LastEditWins ==
    /\ [](\A h \in Slots : \A g \in Slots :
            (Racing(h, g) /\ Done(h) /\ Done(g) /\ events = 2)
              => /\ Cardinality(ApprovalsBy(hs[h].p.repo, hs[h].p.pr, hs[h].p.actor)) = 1
                 /\ Cardinality(ApprovalsBy(hs[h].p.repo, hs[h].p.pr, hs[g].p.actor)) = 1
                 /\ \A m \in Pointers(hs[h].p.repo, hs[h].p.pr) :
                      slackMsgs[m[2]].blocks \in {hs[h].blocks, hs[g].blocks})
    /\ [][/\ \A h \in Slots :
               (Called(h) /\ NewCall(h).op = "update" /\ NewCall(h).ok)
                 => slackMsgs'[NewCall(h).ts].blocks = hs[h].blocks
          /\ \A ts \in 1..Len(slackMsgs) :
               slackMsgs'[ts].blocks # slackMsgs[ts].blocks
                 => \E h \in Slots : /\ Called(h) /\ NewCall(h).op = "update"
                                     /\ NewCall(h).ok /\ NewCall(h).ts = ts
                                     /\ slackMsgs'[ts].blocks = hs[h].blocks
         ]_vars

\* two racing approved routines have returned, both approvals are stored, and
\* the card at a pointer, written by the routine whose edit came last, lists
\* one approver only
C35_Witness ==
    \E h \in Slots : \E g \in Slots :
        /\ Racing(h, g) /\ Done(h) /\ Done(g) /\ events = 2
        /\ Cardinality(LiveApprovals(hs[h].p.repo, hs[h].p.pr)) = 2
        /\ \E m \in Pointers(hs[h].p.repo, hs[h].p.pr) :
             /\ slackMsgs[m[2]].blocks = hs[h].blocks
             /\ Len(hs[h].approvers) = 1
             /\ Len(hs[g].approvers) = 2
             /\ m \in Touched(h, "update") /\ m \in Touched(g, "update")

\* C36: the secret a "/repo add" routine got from GetOrCreateWebhookSecret is
\* the secret webhook_secrets holds for its repository, whatever other
\* "/repo add" routine ran at the same time.
C36_ReturnsStoredSecret ==
    \A h \in Slots :
        (hs[h].ev = "/repo add" /\ Done(h) /\ hs[h].secret # "")
          => \E r \in secrets : r.repo_slug = hs[h].p.repo /\ r.secret = hs[h].secret

\* C37: the approver list GetApprovals reads for a pull request is its live
\* approvals in the order they were inserted (so an approver removed and added
\* again comes after those present when it was added again), and adding an
\* approver that is already a member leaves the list as it was.
C37_ListInInsertionOrder ==
    /\ [](\A i \in 1..Len(prApprovals) :
            prApprovals[i].state = "live"
              => GetApprovals(prApprovals, prApprovals[i].repo_slug, prApprovals[i].pr_id)
                   = ByInsertion(LiveApprovals(prApprovals[i].repo_slug,
                                               prApprovals[i].pr_id)))
    /\ [][\A h \in Slots :
            (hs[h].pc = "ap_add" /\ hs'[h].pc = "ap_get"
               /\ Approves(prApprovals, hs[h].p.repo, hs[h].p.pr, hs[h].p.actor))
              => GetApprovals(prApprovals', hs[h].p.repo, hs[h].p.pr)
                   = GetApprovals(prApprovals, hs[h].p.repo, hs[h].p.pr)]_vars

\* the events whose routine renders the card's annotation from pr_approvals
RerenderEvents == {"pullrequest:approved", "pullrequest:unapproved"} \cup StatusEvents

\* the pull request whose card routine h is working on
CardPR(h) == IF hs[h].ev \in StatusEvents THEN hs[h].prID ELSE hs[h].p.pr

TerminalHeads == {":tada: Merged by ", ":x: Declined by "}

\* the sequences of labels the names of a list can be shown with
LabelSeqs(names) ==
    {ls \in [1..Len(names) -> UNION {LabelsOf(names[i]) : i \in 1..Len(names)}] :
        \A i \in 1..Len(names) : ls[i] \in LabelsOf(names[i])}

\* C38: the routine of a build-status, approved or unapproved event reads as
\* approvers exactly the users with a live approval of the pull request, and
\* every edit it makes leaves the message with the annotation "Approved by"
\* followed by a label of each approver it read, in the order read (the labels
\* user_mappings gives when the routine ran alone), and with no annotation (so
\* no "Merged by" or "Declined by" either) when it read none.
C38_AnnotationFromApprovals ==
    [][\A h \in Slots :
         /\ (hs[h].ev \in RerenderEvents /\ hs[h].pc \in {"ap_get", "cs_approvals"}
               /\ hs'[h].pc # hs[h].pc)
              => {hs'[h].approvers[i] : i \in 1..Len(hs'[h].approvers)}
                   = {prApprovals[i].user_name :
                        i \in {j \in 1..Len(prApprovals) :
                                 /\ prApprovals[j].state = "live"
                                 /\ prApprovals[j].repo_slug = hs[h].p.repo
                                 /\ prApprovals[j].pr_id = CardPR(h)}}
         /\ (hs[h].ev \in RerenderEvents /\ Called(h)
               /\ NewCall(h).op = "update" /\ NewCall(h).ok)
              => LET card == slackMsgs'[NewCall(h).ts].blocks
                 IN  /\ ThreeRows(card)
                     /\ IF hs[h].approvers = <<>>
                        THEN Len(card) = 6
                        ELSE /\ Len(card) = 7
                             /\ \E ls \in LabelSeqs(hs[h].approvers) :
                                   card[7].fields[1]
                                     = <<":white_check_mark: Approved by ">> \o Join(ls, ", ")
                             /\ hs[h].solo
                                  => card[7].fields[1]
                                       = <<":white_check_mark: Approved by ">>
                                         \o Join([i \in 1..Len(hs[h].approvers) |->
                                                    LabelNow(hs[h].approvers[i])], ", ")
      ]_vars

\* a message a merged or declined routine had annotated "Merged by" or
\* "Declined by" shows, after the edit of a build-status, approved or
\* unapproved routine, that routine's card, without the earlier annotation
C38_Witness ==
    \E h \in Slots : \E g \in Slots : \E ts \in 1..Len(slackMsgs) :
        /\ hs[h].ev \in RerenderEvents
        /\ hs[g].ev \in {"pullrequest:fulfilled", "pullrequest:rejected"}
        /\ \E ch \in Channels : /\ <<ch, ts>> \in Touched(h, "update")
                                /\ <<ch, ts>> \in Touched(g, "update")
        /\ Len(hs[g].blocks) = 7 /\ hs[g].blocks[7].fields[1][1] \in TerminalHeads
        /\ slackMsgs[ts].blocks = hs[h].blocks
        /\ Len(slackMsgs[ts].blocks) = 7
             => slackMsgs[ts].blocks[7].fields[1][1] \notin TerminalHeads

\* a "/repo add" routine for the repository is between its Subscribe and the
\* end of its GetOrCreateWebhookSecret
AddingSecret(repo) ==
    \E h \in Slots : /\ hs[h].ev = "/repo add" /\ hs[h].p.repo = repo
                     /\ hs[h].pc \in {"gs_select", "gs_insert"}

\* C39: a repository some channel is subscribed to has a webhook secret on
\* file as soon as no "/repo add" for it is still creating one, also when a
\* statement of the secret's creation returned an error.
C39_SubscribedHasSecret ==
    \A r \in subs :
        ~AddingSecret(r.repo_slug)
          => \E w \in secrets : w.repo_slug = r.repo_slug /\ w.secret # ""

\* the events whose routine works on the cards already posted
LaterEvents == (PREvents \ {"pullrequest:created"}) \cup StatusEvents

\* the pull requests routine h is to re-render or reply to
PRsOf(h) ==
    IF hs[h].ev \in StatusEvents THEN PRsOn(hs[h].p.repo, hs[h].p.commit) ELSE {hs[h].p.pr}

\* C40: a step that changes repo_subscriptions changes neither pr_messages nor
\* any Slack message; a merged, declined, approved, unapproved, comment or
\* build-status routine reads as its targets exactly the pr_messages rows of
\* its pull request, every edit and thread reply it makes goes to one of them,
\* and it posts a top-level message only when it read none; and when such a routine that ran alone has returned, it has thread
\* replied (and, but for a comment, edited) at every pointer of its pull
\* request, whether or not the pointer's channel is subscribed, and has made
\* no call in a channel without pointer, subscribed or not.
C40_PointersIgnoreSubscriptions ==
    /\ [][/\ subs' # subs => (prMessages' = prMessages /\ slackMsgs' = slackMsgs)
          /\ \A h \in Slots :
               (hs[h].ev \in LaterEvents /\ hs[h].pc \in {"ur_msgs", "cm_msgs", "cs_msgs"}
                  /\ hs'[h].pc # hs[h].pc /\ hs'[h].storeErr = hs[h].storeErr)
                 => /\ hs'[h].msgs
                         = {[ChannelID |-> r.channel_id, MessageTS |-> r.message_ts] :
                              r \in {x \in prMessages : /\ x.repo_slug = hs[h].p.repo
                                                        /\ x.pr_id = CardPR(h)}}
                    /\ hs'[h].fallback = (hs[h].pc = "ur_msgs" /\ hs'[h].msgs = {})
          /\ \A h \in Slots :
               (hs[h].ev \in LaterEvents /\ Called(h))
                 => /\ NewCall(h).op \in {"update", "thread"}
                         => [ChannelID |-> NewCall(h).channel, MessageTS |-> NewCall(h).ts]
                              \in hs[h].msgs
                    /\ NewCall(h).op = "post" => hs[h].fallback
         ]_vars
    /\ [](\A h \in Slots :
            (Done(h) /\ hs[h].solo /\ hs[h].ev \in LaterEvents)
              => \A prID \in PRsOf(h) :
                   LET ptrs == Pointers(hs[h].p.repo, prID)
                   IN  ptrs # {}
                         => /\ \A m \in ptrs : m \in Touched(h, "thread")
                            /\ hs[h].ev # "pullrequest:comment_created"
                                 => \A m \in ptrs : m \in Touched(h, "update")
                            /\ \A i \in 1..Len(hs[h].calls) :
                                 hs[h].calls[i].pr = prID
                                   => <<hs[h].calls[i].channel, hs[h].calls[i].ts>> \in ptrs)

\* a routine that ran alone has edited and thread replied at the pointer of a
\* channel that is no longer subscribed, and has made no call in a channel
\* that is subscribed but holds no pointer of the pull request
C40_Witness ==
    \E h \in Slots : \E c \in Channels : \E d \in Channels :
        /\ Done(h) /\ hs[h].solo /\ hs[h].ev \in LaterEvents
        /\ hs[h].ev # "pullrequest:comment_created"
        /\ c \notin ChannelsForRepo(subs, hs[h].p.repo)
        /\ \E m \in Pointers(hs[h].p.repo, hs[h].p.pr) :
             m[1] = c /\ m \in Touched(h, "update") /\ m \in Touched(h, "thread")
        /\ d \in ChannelsForRepo(subs, hs[h].p.repo)
        /\ \A m \in Pointers(hs[h].p.repo, hs[h].p.pr) : m[1] # d
        /\ \A i \in 1..Len(hs[h].calls) : hs[h].calls[i].channel # d

\* routine h met a failure: a store statement or a Slack call returned an error
Failed(h) ==
    \/ hs[h].storeErr \/ hs[h].actorErr
    \/ \E i \in 1..Len(hs[h].calls) : ~hs[h].calls[i].ok

\* C34: under fair scheduling every routine Handle started reaches its end and
\* its goroutine exits (a slot is left only by Return, at the routine's end),
\* with or without failures; in every state a routine that has not reached its end
\* can take its next step, whatever the other routines are doing; and while a
\* routine that met a failure is there, every delivery of the menu can still be
\* handled as long as the bounds on deliveries and goroutines allow one.
C34_RoutinesTerminate ==
    /\ \A h \in Slots : (Running(h) ~> ~Running(h))
    /\ [](\A h \in Slots : (Running(h) /\ ~Done(h)) => ENABLED Step(h))
    /\ [](\A h \in Slots :
            (Failed(h) /\ events < MaxEvents /\ \E g \in Slots : hs[g].pc = "idle")
              => \A d \in menu : ENABLED Handle(d))

\* a routine that met a failure has reached its end while another routine,
\* started after it, is running
C34_Witness ==
    \E h \in Slots : \E g \in Slots :
        /\ h # g /\ Done(h) /\ Failed(h)
        /\ Running(g) /\ ~Done(g) /\ hs[g].calls # <<>>


====
